---- MODULE Spec2Model ----
(***************************************************************************)
(* RRT* planner of RRT/src/RRT_star.py (class RRTGraph).                   *)
(*                                                                         *)
(* The tree is kept in the parallel lists x, y, parent and cost.  Node     *)
(* index i of the program is position i+1 of the TLA+ sequences; parent    *)
(* entries and goalstate hold program (0-based) indices.                   *)
(*                                                                         *)
(* Lengths are fixed-point numbers in hundredths of a workspace unit:      *)
(* distance() is floor(100 * sqrt(dx^2 + dy^2)).  Node coordinates are     *)
(* integers in the program (sample_envir and step both apply int()), so    *)
(* the comparisons "d > 35" and "dist < 35" have exactly the outcome they  *)
(* have on the reals.  float('inf') is the value Inf.                      *)
(*                                                                         *)
(* selfGoal is the field self.goal.  iteration counts the growth calls of  *)
(* a driver loop and drawn is the sequence of distinct points the sampler  *)
(* has returned so far; both stay at their initial value in Spec, whose    *)
(* driver makes any sequence of calls.                                     *)
(*                                                                         *)
(* makeobsState is the frame of a makeobs() call: its locals obs, i and j, *)
(* whether the warning has been printed, and its position pc ("idle" when  *)
(* makeobs() has not been called, "attempt" at the top of the inner loop   *)
(* body, "after" at the test that follows the inner loop, "done" after the *)
(* return).                                                                *)
(***************************************************************************)
EXTENDS Integers, Sequences, FiniteSets, TLC

VARIABLES x, y, parent, cost, goalFlag, goalstate, path, obstacles, op, ret,
          selfGoal, iteration, drawn, makeobsState

vars == <<x, y, parent, cost, goalFlag, goalstate, path, obstacles, op, ret,
          selfGoal, iteration, drawn, makeobsState>>

(***************************************************************************)
(* Program constants.                                                      *)
(***************************************************************************)
Inf == 1000000000
None == 0 - 1
dmax == 35
rewireRadius == 35
segmentSamples == 200

(***************************************************************************)
(* Bounds of the model and the inputs of the run.                          *)
(***************************************************************************)
MaxNodes == 5
MaxCostLen == 8
MaxIterations == 50

start == <<10, 50>>
goal == <<60, 50>>
goalA == <<600, 50>>
Obstacle == [left |-> 30, top |-> 45, w |-> 10, h |-> 10]
ObstacleOnGoal == [left |-> 55, top |-> 45, w |-> 10, h |-> 10]
\* scenario B: a 3 x 2 workspace whose obstacle covers the lattice point
\* between start and goal
mapw == 3
maph == 2
startB == <<0, 0>>
goalB == <<2, 0>>
ObstacleB == [left |-> 1, top |-> 0, w |-> 1, h |-> 1]
MaxRounds == 2

\* scenario with start and goal on the line y = 55 of the obstacle's bottom
\* edge, which collidepoint excludes
startOnEdge == <<25, 55>>
goalOnEdge == <<35, 55>>
startBelowEdge == <<35, 60>>

\* scenario for makeobs(): a 5 x 5 workspace, three obstacles of side 2
\* requested; max_iter stands for the retry budget of makeobs()
Mapw == 5
Maph == 5
obsdim == 2
obsNumber == 3
max_iter == 3

SamplePoints ==
    { <<10, 80>>, <<30, 80>>, <<30, 100>>, <<20, 65>>, <<30, 15>>, <<35, 50>>,
      <<27, 50>>, <<12, 5>> }

(***************************************************************************)
(* Arithmetic helpers.                                                     *)
(***************************************************************************)
Fixed(v) == v * 100

Abs(v) == IF v < 0 THEN 0 - v ELSE v

RECURSIVE ISqrtSearch(_, _, _)
ISqrtSearch(n, lo, hi) ==
    IF hi - lo <= 1 THEN lo
    ELSE LET mid == (lo + hi) \div 2
         IN  IF mid * mid <= n THEN ISqrtSearch(n, mid, hi)
                               ELSE ISqrtSearch(n, lo, mid)

\* floor(sqrt(n)) for 0 <= n < 2^30
ISqrt(n) == ISqrtSearch(n, 0, 32768)

\* floor(100 * sqrt(d2)), from the integer part q of the root and the
\* largest number t of hundredths with (100q + t)^2 <= 10000 * d2
FixedSqrt(d2) ==
    LET q == ISqrt(d2)
        fits(t) == 2 * Fixed(q) * t + t * t <= Fixed(1) * Fixed(1) * (d2 - q * q)
    IN  Fixed(q) + CHOOSE t \in 0..(Fixed(1) - 1) :
                      fits(t) /\ (t = Fixed(1) - 1 \/ ~fits(t + 1))

Plus(a, b) == IF a = Inf \/ b = Inf THEN Inf ELSE a + b

\* list.pop(n) on a 0-based index n
Pop(s, n) == SubSeq(s, 1, n) \o SubSeq(s, n + 2, Len(s))

\* floor(k * |delta| / sqrt(d2)) and ceil(k * |delta| / sqrt(d2)), 0 < d2
FloorOfRatio(k, delta, d2) ==
    CHOOSE q \in 0..k :
        /\ q * q * d2 <= k * k * delta * delta
        /\ (q + 1) * (q + 1) * d2 > k * k * delta * delta

CeilOfRatio(k, delta, d2) ==
    CHOOSE q \in 0..k :
        /\ q * q * d2 >= k * k * delta * delta
        /\ (q = 0 \/ (q - 1) * (q - 1) * d2 < k * k * delta * delta)

\* int(near + k*cos(theta)) resp. int(near + k*sin(theta)), where delta/sqrt(d2)
\* is the cosine resp. sine of theta = atan2(py, px); int() truncates towards 0
SteerCoord(near, k, delta, d2) ==
    IF delta >= 0
    THEN near + FloorOfRatio(k, delta, d2)
    ELSE IF CeilOfRatio(k, delta, d2) <= near
         THEN near - CeilOfRatio(k, delta, d2)
         ELSE near - FloorOfRatio(k, delta, d2)

(***************************************************************************)
(* The graph as one record, so that the methods compose.                   *)
(***************************************************************************)
Graph ==
    [x |-> x, y |-> y, parent |-> parent, cost |-> cost,
     goalFlag |-> goalFlag, goalstate |-> goalstate, goal |-> selfGoal]

number_of_nodes(g) == Len(g.x)

\* pygame.Rect.collidepoint on the point (px/den, py/den): left and top edges
\* are inside, right and bottom edges are outside
collidepoint(rect, px, py, den) ==
    /\ rect.left * den <= px
    /\ px < (rect.left + rect.w) * den
    /\ rect.top * den <= py
    /\ py < (rect.top + rect.h) * den

\* pygame.Rect.colliderect: the two rectangles share a region of positive
\* area
colliderect(a, b) ==
    /\ a.left < b.left + b.w
    /\ b.left < a.left + a.w
    /\ a.top < b.top + b.h
    /\ b.top < a.top + a.h

\* the upper corners makeRandomRect() can return
makeRandomRect ==
    {<<cx, cy>> : cx \in 0..(Mapw - obsdim - 1), cy \in 0..(Maph - obsdim - 1)}

add_node(g, n, xv, yv) ==
    [g EXCEPT !.x = Append(@, xv), !.y = Append(@, yv), !.cost = Append(@, Inf)]

\* remove_node() that pops the front of the lists, as obs.pop(0) does
remove_node_popsFront(g, n) ==
    [g EXCEPT !.x = Pop(@, 0), !.y = Pop(@, 0)]

remove_node(g, n) ==
    [g EXCEPT !.x = Pop(@, n), !.y = Pop(@, n)]

distance(g, n1, n2) ==
    IF n1 >= Len(g.x) \/ n2 >= Len(g.x)
    THEN Inf
    ELSE LET dx == g.x[n1 + 1] - g.x[n2 + 1]
             dy == g.y[n1 + 1] - g.y[n2 + 1]
         IN  FixedSqrt(dx * dx + dy * dy)

\* add_edge() recording the length of the new edge alone as the child's cost
add_edge_edgeLengthOnly(g, p, child) ==
    [g EXCEPT !.parent = Append(@, p),
              !.cost = [@ EXCEPT ![child + 1] = distance(g, p, child)]]

\* add_edge() with the cost written at the parent's index
add_edge_costOnParent(g, p, child) ==
    [g EXCEPT !.parent = Append(@, p),
              !.cost = [@ EXCEPT ![p + 1] =
                            Plus(g.cost[p + 1], distance(g, p, child))]]

add_edge(g, p, child) ==
    [g EXCEPT !.parent = Append(@, p),
              !.cost = [@ EXCEPT ![child + 1] =
                            Plus(g.cost[p + 1], distance(g, p, child))]]

\* The triples <<c1, c2, i>>, c1 and c2 in 0..100, for which the double
\* c1 * u + c2 * (1 - u) with u = i / 200 is an integer in exact arithmetic
\* and comes out just below it in IEEE-754 arithmetic (u, 1 - u, both
\* products and the sum are each rounded to nearest), so that collidepoint
\* truncates it to the integer below.  For every other triple in that range
\* the truncated double is the floor of the exact value.
TruncatedBelow ==
    { <<0, 5, 160>>, <<0, 10, 160>>, <<0, 10, 180>>, <<0, 15, 160>>, <<0, 20, 160>>,
      <<0, 20, 180>>, <<0, 25, 112>>, <<0, 25, 136>>, <<0, 25, 160>>, <<0, 25, 184>>,
      <<0, 30, 160>>, <<0, 30, 180>>, <<0, 35, 160>>, <<0, 40, 135>>, <<0, 40, 160>>,
      <<0, 40, 180>>, <<0, 40, 185>>, <<0, 45, 160>>, <<0, 50, 68>>, <<0, 50, 112>>,
      <<0, 50, 136>>, <<0, 50, 156>>, <<0, 50, 160>>, <<0, 50, 180>>, <<0, 50, 184>>,
      <<0, 55, 160>>, <<0, 60, 110>>, <<0, 60, 160>>, <<0, 60, 180>>, <<0, 65, 160>>,
      <<0, 70, 160>>, <<0, 70, 180>>, <<0, 75, 64>>, <<0, 75, 112>>, <<0, 75, 136>>,
      <<0, 75, 160>>, <<0, 75, 184>>, <<0, 80, 135>>, <<0, 80, 160>>, <<0, 80, 180>>,
      <<0, 80, 185>>, <<0, 85, 160>>, <<0, 90, 60>>, <<0, 90, 160>>, <<0, 90, 180>>,
      <<0, 95, 160>>, <<0, 100, 68>>, <<0, 100, 110>>, <<0, 100, 112>>, <<0, 100, 134>>,
      <<0, 100, 136>>, <<0, 100, 156>>, <<0, 100, 158>>, <<0, 100, 160>>, <<0, 100, 162>>,
      <<0, 100, 178>>, <<0, 100, 180>>, <<0, 100, 182>>, <<0, 100, 184>>, <<0, 100, 186>>,
      <<1, 6, 80>>, <<1, 6, 160>>, <<1, 11, 60>>, <<1, 11, 160>>, <<1, 11, 180>>,
      <<1, 16, 160>>, <<1, 21, 30>>, <<1, 21, 160>>, <<1, 21, 180>>, <<1, 26, 112>>,
      <<1, 26, 136>>, <<1, 26, 160>>, <<1, 26, 184>>, <<1, 31, 80>>, <<1, 31, 160>>,
      <<1, 31, 180>>, <<1, 36, 80>>, <<1, 36, 160>>, <<1, 41, 10>>, <<1, 41, 35>>,
      <<1, 41, 55>>, <<1, 41, 80>>, <<1, 41, 105>>, <<1, 41, 135>>, <<1, 41, 160>>,
      <<1, 41, 180>>, <<1, 41, 185>>, <<1, 46, 80>>, <<1, 46, 160>>, <<1, 51, 32>>,
      <<1, 51, 60>>, <<1, 51, 80>>, <<1, 51, 108>>, <<1, 51, 112>>, <<1, 51, 136>>,
      <<1, 51, 156>>, <<1, 51, 160>>, <<1, 51, 180>>, <<1, 51, 184>>, <<1, 56, 160>>,
      <<1, 61, 10>>, <<1, 61, 60>>, <<1, 61, 110>>, <<1, 61, 130>>, <<1, 61, 160>>,
      <<1, 61, 180>>, <<1, 66, 160>>, <<1, 71, 60>>, <<1, 71, 160>>, <<1, 71, 180>>,
      <<1, 76, 32>>, <<1, 76, 64>>, <<1, 76, 136>>, <<1, 76, 160>>, <<1, 76, 184>>,
      <<1, 81, 60>>, <<1, 81, 85>>, <<1, 81, 110>>, <<1, 81, 130>>, <<1, 81, 135>>,
      <<1, 81, 155>>, <<1, 81, 160>>, <<1, 81, 180>>, <<1, 81, 185>>, <<1, 86, 160>>,
      <<1, 91, 60>>, <<1, 91, 160>>, <<1, 91, 180>>, <<1, 96, 80>>, <<1, 96, 160>>,
      <<2, 12, 60>>, <<2, 12, 80>>, <<2, 12, 160>>, <<2, 22, 60>>, <<2, 22, 110>>,
      <<2, 22, 160>>, <<2, 22, 180>>, <<2, 27, 8>>, <<2, 27, 56>>, <<2, 27, 128>>,
      <<2, 27, 136>>, <<2, 27, 160>>, <<2, 27, 184>>, <<2, 32, 160>>, <<2, 32, 180>>,
      <<2, 37, 160>>, <<2, 42, 5>>, <<2, 42, 30>>, <<2, 42, 135>>, <<2, 42, 160>>,
      <<2, 42, 180>>, <<2, 42, 185>>, <<2, 47, 160>>, <<2, 52, 12>>, <<2, 52, 68>>,
      <<2, 52, 112>>, <<2, 52, 136>>, <<2, 52, 156>>, <<2, 52, 160>>, <<2, 52, 180>>,
      <<2, 52, 184>>, <<2, 57, 80>>, <<2, 57, 160>>, <<2, 62, 30>>, <<2, 62, 80>>,
      <<2, 62, 160>>, <<2, 62, 180>>, <<2, 67, 80>>, <<2, 67, 160>>, <<2, 72, 80>>,
      <<2, 72, 160>>, <<2, 72, 180>>, <<2, 77, 32>>, <<2, 77, 64>>, <<2, 77, 80>>,
      <<2, 77, 112>>, <<2, 77, 136>>, <<2, 77, 160>>, <<2, 77, 184>>, <<2, 82, 10>>,
      <<2, 82, 35>>, <<2, 82, 55>>, <<2, 82, 80>>, <<2, 82, 105>>, <<2, 82, 135>>,
      <<2, 82, 160>>, <<2, 82, 180>>, <<2, 82, 185>>, <<2, 87, 80>>, <<2, 87, 160>>,
      <<2, 92, 60>>, <<2, 92, 80>>, <<2, 92, 160>>, <<2, 92, 180>>, <<2, 97, 80>>,
      <<2, 97, 160>>, <<3, 3, 2>>, <<3, 3, 10>>, <<3, 3, 35>>, <<3, 3, 60>>,
      <<3, 23, 10>>, <<3, 23, 60>>, <<3, 23, 160>>, <<3, 28, 112>>, <<3, 28, 160>>,
      <<3, 28, 184>>, <<3, 33, 60>>, <<3, 38, 160>>, <<3, 43, 60>>, <<3, 43, 85>>,
      <<3, 43, 110>>, <<3, 43, 135>>, <<3, 43, 160>>, <<3, 43, 180>>, <<3, 43, 185>>,
      <<3, 48, 80>>, <<3, 48, 160>>, <<3, 53, 8>>, <<3, 53, 32>>, <<3, 53, 60>>,
      <<3, 53, 104>>, <<3, 53, 112>>, <<3, 53, 136>>, <<3, 53, 156>>, <<3, 53, 160>>,
      <<3, 53, 180>>, <<3, 53, 184>>, <<3, 58, 160>>, <<3, 63, 10>>, <<3, 63, 60>>,
      <<3, 63, 110>>, <<3, 63, 130>>, <<3, 63, 160>>, <<3, 68, 160>>, <<3, 73, 60>>,
      <<3, 73, 160>>, <<3, 73, 180>>, <<3, 78, 64>>, <<3, 78, 112>>, <<3, 78, 136>>,
      <<3, 78, 160>>, <<3, 78, 184>>, <<3, 83, 60>>, <<3, 83, 85>>, <<3, 83, 110>>,
      <<3, 83, 130>>, <<3, 83, 155>>, <<3, 83, 185>>, <<3, 88, 160>>, <<3, 93, 160>>,
      <<3, 93, 180>>, <<3, 98, 160>>, <<4, 14, 60>>, <<4, 19, 160>>, <<4, 24, 10>>,
      <<4, 24, 60>>, <<4, 24, 80>>, <<4, 24, 130>>, <<4, 24, 160>>, <<4, 29, 112>>,
      <<4, 29, 184>>, <<4, 34, 60>>, <<4, 39, 160>>, <<4, 44, 60>>, <<4, 44, 85>>,
      <<4, 44, 110>>, <<4, 44, 135>>, <<4, 44, 155>>, <<4, 44, 160>>, <<4, 44, 180>>,
      <<4, 44, 185>>, <<4, 49, 160>>, <<4, 54, 8>>, <<4, 54, 56>>, <<4, 54, 68>>,
      <<4, 54, 108>>, <<4, 54, 128>>, <<4, 54, 136>>, <<4, 54, 160>>, <<4, 54, 180>>,
      <<4, 54, 184>>, <<4, 59, 160>>, <<4, 64, 110>>, <<4, 64, 160>>, <<4, 64, 180>>,
      <<4, 69, 160>>, <<4, 74, 160>>, <<4, 74, 180>>, <<4, 79, 56>>, <<4, 79, 64>>,
      <<4, 79, 128>>, <<4, 79, 136>>, <<4, 79, 160>>, <<4, 79, 184>>, <<4, 84, 5>>,
      <<4, 84, 30>>, <<4, 84, 135>>, <<4, 84, 160>>, <<4, 84, 180>>, <<4, 84, 185>>,
      <<4, 89, 160>>, <<4, 94, 160>>, <<4, 94, 180>>, <<4, 99, 160>>, <<5, 5, 9>>,
      <<5, 5, 12>>, <<5, 5, 14>>, <<5, 5, 37>>, <<5, 15, 160>>, <<5, 20, 160>>,
      <<5, 25, 110>>, <<5, 30, 8>>, <<5, 30, 56>>, <<5, 30, 136>>, <<5, 30, 160>>,
      <<5, 30, 184>>, <<5, 35, 160>>, <<5, 35, 180>>, <<5, 40, 160>>, <<5, 45, 85>>,
      <<5, 45, 110>>, <<5, 45, 155>>, <<5, 45, 160>>, <<5, 45, 185>>, <<5, 50, 160>>,
      <<5, 55, 12>>, <<5, 55, 32>>, <<5, 55, 108>>, <<5, 55, 112>>, <<5, 55, 156>>,
      <<5, 55, 160>>, <<5, 55, 184>>, <<5, 60, 160>>, <<5, 65, 110>>, <<5, 65, 160>>,
      <<5, 65, 180>>, <<5, 70, 160>>, <<5, 75, 160>>, <<5, 75, 180>>, <<5, 80, 56>>,
      <<5, 80, 64>>, <<5, 80, 112>>, <<5, 80, 128>>, <<5, 80, 136>>, <<5, 80, 160>>,
      <<5, 80, 184>>, <<5, 85, 60>>, <<5, 85, 85>>, <<5, 85, 110>>, <<5, 85, 135>>,
      <<5, 85, 155>>, <<5, 85, 160>>, <<5, 85, 180>>, <<5, 85, 185>>, <<5, 90, 160>>,
      <<5, 95, 160>>, <<5, 95, 180>>, <<5, 100, 160>>, <<6, 1, 120>>, <<6, 6, 2>>,
      <<6, 6, 10>>, <<6, 6, 35>>, <<6, 6, 60>>, <<6, 26, 30>>, <<6, 31, 8>>,
      <<6, 31, 136>>, <<6, 31, 184>>, <<6, 41, 160>>, <<6, 46, 10>>, <<6, 46, 35>>,
      <<6, 46, 60>>, <<6, 46, 160>>, <<6, 46, 185>>, <<6, 51, 160>>, <<6, 56, 4>>,
      <<6, 56, 60>>, <<6, 56, 68>>, <<6, 56, 112>>, <<6, 56, 160>>, <<6, 56, 184>>,
      <<6, 66, 10>>, <<6, 66, 60>>, <<6, 66, 110>>, <<6, 76, 60>>, <<6, 76, 160>>,
      <<6, 76, 180>>, <<6, 81, 8>>, <<6, 81, 32>>, <<6, 81, 104>>, <<6, 81, 112>>,
      <<6, 81, 136>>, <<6, 81, 160>>, <<6, 81, 184>>, <<6, 86, 60>>, <<6, 86, 85>>,
      <<6, 86, 110>>, <<6, 86, 135>>, <<6, 86, 160>>, <<6, 86, 180>>, <<6, 86, 185>>,
      <<6, 91, 160>>, <<6, 96, 60>>, <<6, 96, 80>>, <<6, 96, 160>>, <<6, 96, 180>>,
      <<7, 7, 4>>, <<7, 7, 10>>, <<7, 7, 11>>, <<7, 7, 29>>, <<7, 7, 35>>,
      <<7, 17, 60>>, <<7, 47, 5>>, <<7, 47, 30>>, <<7, 47, 55>>, <<7, 47, 185>>,
      <<7, 57, 28>>, <<7, 57, 32>>, <<7, 57, 80>>, <<7, 57, 160>>, <<7, 57, 180>>,
      <<7, 57, 184>>, <<7, 62, 80>>, <<7, 62, 160>>, <<7, 67, 30>>, <<7, 67, 80>>,
      <<7, 67, 160>>, <<7, 67, 180>>, <<7, 72, 80>>, <<7, 72, 160>>, <<7, 77, 80>>,
      <<7, 77, 160>>, <<7, 77, 180>>, <<7, 82, 80>>, <<7, 82, 136>>, <<7, 82, 160>>,
      <<7, 82, 184>>, <<7, 87, 10>>, <<7, 87, 35>>, <<7, 87, 80>>, <<7, 87, 105>>,
      <<7, 87, 135>>, <<7, 87, 160>>, <<7, 87, 180>>, <<7, 87, 185>>, <<7, 92, 80>>,
      <<7, 92, 160>>, <<7, 97, 60>>, <<7, 97, 80>>, <<7, 97, 160>>, <<7, 97, 180>>,
      <<8, 28, 10>>, <<8, 28, 60>>, <<8, 33, 64>>, <<8, 38, 60>>, <<8, 38, 160>>,
      <<8, 43, 160>>, <<8, 48, 10>>, <<8, 48, 35>>, <<8, 48, 60>>, <<8, 48, 80>>,
      <<8, 48, 85>>, <<8, 48, 105>>, <<8, 48, 130>>, <<8, 48, 160>>, <<8, 48, 185>>,
      <<8, 58, 4>>, <<8, 58, 12>>, <<8, 58, 60>>, <<8, 58, 68>>, <<8, 58, 112>>,
      <<8, 58, 184>>, <<8, 68, 60>>, <<8, 68, 130>>, <<8, 73, 160>>, <<8, 78, 60>>,
      <<8, 78, 160>>, <<8, 78, 180>>, <<8, 83, 8>>, <<8, 83, 136>>, <<8, 83, 184>>,
      <<8, 88, 60>>, <<8, 88, 85>>, <<8, 88, 110>>, <<8, 88, 135>>, <<8, 88, 155>>,
      <<8, 88, 160>>, <<8, 88, 180>>, <<8, 88, 185>>, <<8, 93, 160>>, <<8, 98, 160>>,
      <<8, 98, 180>>, <<9, 9, 9>>, <<9, 9, 10>>, <<9, 9, 11>>, <<9, 19, 60>>,
      <<9, 29, 10>>, <<9, 29, 60>>, <<9, 34, 64>>, <<9, 39, 60>>, <<9, 39, 160>>,
      <<9, 39, 180>>, <<9, 44, 160>>, <<9, 49, 85>>, <<9, 49, 110>>, <<9, 49, 135>>,
      <<9, 49, 160>>, <<9, 49, 180>>, <<9, 54, 160>>, <<9, 59, 12>>, <<9, 59, 32>>,
      <<9, 59, 108>>, <<9, 59, 136>>, <<9, 59, 160>>, <<9, 59, 180>>, <<9, 64, 160>>,
      <<9, 69, 160>>, <<9, 69, 180>>, <<9, 74, 160>>, <<9, 79, 160>>, <<9, 79, 180>>,
      <<9, 84, 112>>, <<9, 84, 136>>, <<9, 84, 160>>, <<9, 84, 184>>, <<9, 89, 5>>,
      <<9, 89, 30>>, <<9, 89, 55>>, <<9, 89, 160>>, <<9, 89, 185>>, <<9, 94, 160>>,
      <<9, 99, 160>>, <<10, 10, 9>>, <<10, 10, 12>>, <<10, 10, 14>>, <<10, 10, 37>>,
      <<10, 30, 160>>, <<10, 35, 64>>, <<10, 35, 160>>, <<10, 40, 160>>, <<10, 50, 110>>,
      <<10, 50, 135>>, <<10, 50, 185>>, <<10, 60, 8>>, <<10, 60, 56>>, <<10, 60, 68>>,
      <<10, 60, 136>>, <<10, 60, 160>>, <<10, 60, 180>>, <<10, 60, 184>>, <<10, 65, 160>>,
      <<10, 70, 160>>, <<10, 70, 180>>, <<10, 75, 160>>, <<10, 80, 160>>, <<10, 85, 32>>,
      <<10, 85, 56>>, <<10, 85, 160>>, <<10, 85, 184>>, <<10, 90, 85>>, <<10, 90, 110>>,
      <<10, 90, 155>>, <<10, 90, 160>>, <<10, 90, 185>>, <<10, 95, 160>>, <<10, 100, 160>>,
      <<11, 1, 140>>, <<11, 11, 3>>, <<11, 11, 8>>, <<11, 11, 9>>, <<11, 11, 14>>,
      <<11, 11, 33>>, <<11, 11, 39>>, <<11, 31, 30>>, <<11, 36, 64>>, <<11, 51, 10>>,
      <<11, 51, 35>>, <<11, 51, 60>>, <<11, 51, 185>>, <<11, 61, 8>>, <<11, 61, 12>>,
      <<11, 61, 32>>, <<11, 61, 60>>, <<11, 61, 136>>, <<11, 61, 184>>, <<11, 71, 60>>,
      <<11, 76, 160>>, <<11, 81, 60>>, <<11, 81, 160>>, <<11, 86, 160>>, <<11, 86, 184>>,
      <<11, 91, 85>>, <<11, 91, 160>>, <<11, 91, 185>>, <<11, 96, 80>>, <<11, 96, 160>>,
      <<12, 2, 120>>, <<12, 2, 140>>, <<12, 12, 2>>, <<12, 12, 10>>, <<12, 12, 35>>,
      <<12, 12, 60>>, <<12, 37, 8>>, <<12, 37, 64>>, <<12, 52, 5>>, <<12, 52, 30>>,
      <<12, 52, 55>>, <<12, 62, 8>>, <<12, 62, 12>>, <<12, 62, 68>>, <<12, 62, 136>>,
      <<12, 62, 184>>, <<12, 72, 10>>, <<12, 72, 30>>, <<12, 82, 160>>, <<12, 87, 112>>,
      <<12, 87, 160>>, <<12, 87, 184>>, <<12, 92, 10>>, <<12, 92, 35>>, <<12, 92, 60>>,
      <<12, 92, 160>>, <<12, 92, 185>>, <<12, 97, 160>>, <<13, 13, 5>>, <<13, 13, 12>>,
      <<13, 13, 30>>, <<13, 13, 37>>, <<13, 13, 68>>, <<13, 23, 60>>, <<13, 33, 10>>,
      <<13, 33, 60>>, <<13, 38, 64>>, <<13, 53, 10>>, <<13, 53, 35>>, <<13, 53, 60>>,
      <<13, 53, 105>>, <<13, 53, 185>>, <<13, 63, 32>>, <<13, 63, 60>>, <<13, 63, 136>>,
      <<13, 73, 60>>, <<13, 73, 110>>, <<13, 73, 160>>, <<13, 78, 160>>, <<13, 83, 60>>,
      <<13, 88, 8>>, <<13, 88, 104>>, <<13, 88, 160>>, <<13, 88, 184>>, <<13, 93, 85>>,
      <<13, 93, 110>>, <<13, 93, 135>>, <<13, 93, 160>>, <<13, 93, 185>>, <<13, 98, 160>>,
      <<14, 14, 4>>, <<14, 14, 10>>, <<14, 14, 11>>, <<14, 14, 29>>, <<14, 14, 35>>,
      <<14, 24, 60>>, <<14, 34, 60>>, <<14, 39, 64>>, <<14, 39, 112>>, <<14, 64, 68>>,
      <<14, 89, 32>>, <<14, 89, 184>>, <<14, 94, 5>>, <<14, 94, 30>>, <<14, 94, 55>>,
      <<14, 94, 185>>, <<15, 15, 6>>, <<15, 15, 8>>, <<15, 15, 11>>, <<15, 15, 33>>,
      <<15, 15, 58>>, <<15, 15, 83>>, <<15, 40, 64>>, <<15, 55, 135>>, <<15, 55, 185>>,
      <<15, 60, 160>>, <<15, 65, 4>>, <<15, 65, 12>>, <<15, 65, 64>>, <<15, 65, 68>>,
      <<15, 65, 160>>, <<15, 70, 160>>, <<15, 75, 160>>, <<15, 80, 160>>, <<15, 85, 60>>,
      <<15, 85, 160>>, <<15, 90, 8>>, <<15, 90, 112>>, <<15, 90, 160>>, <<15, 90, 184>>,
      <<15, 95, 85>>, <<15, 95, 110>>, <<15, 95, 160>>, <<15, 95, 185>>, <<15, 100, 160>>,
      <<16, 36, 10>>, <<16, 46, 60>>, <<16, 56, 10>>, <<16, 56, 35>>, <<16, 56, 60>>,
      <<16, 56, 85>>, <<16, 56, 135>>, <<16, 66, 4>>, <<16, 66, 60>>, <<16, 66, 64>>,
      <<16, 66, 68>>, <<16, 76, 60>>, <<16, 76, 160>>, <<16, 81, 160>>, <<16, 86, 160>>,
      <<16, 91, 112>>, <<16, 91, 136>>, <<16, 91, 160>>, <<16, 91, 184>>, <<16, 96, 10>>,
      <<16, 96, 35>>, <<16, 96, 60>>, <<16, 96, 80>>, <<16, 96, 85>>, <<16, 96, 105>>,
      <<16, 96, 130>>, <<16, 96, 160>>, <<16, 96, 185>>, <<17, 17, 11>>, <<17, 57, 5>>,
      <<17, 57, 30>>, <<17, 67, 56>>, <<17, 67, 64>>, <<17, 67, 68>>, <<17, 77, 10>>,
      <<17, 82, 160>>, <<17, 87, 160>>, <<17, 92, 136>>, <<17, 92, 160>>, <<17, 92, 184>>,
      <<17, 97, 10>>, <<17, 97, 35>>, <<17, 97, 60>>, <<17, 97, 185>>, <<18, 18, 9>>,
      <<18, 18, 10>>, <<18, 18, 11>>, <<18, 28, 60>>, <<18, 38, 60>>, <<18, 48, 60>>,
      <<18, 58, 10>>, <<18, 58, 35>>, <<18, 58, 60>>, <<18, 58, 85>>, <<18, 68, 60>>,
      <<18, 68, 64>>, <<18, 68, 68>>, <<18, 73, 160>>, <<18, 78, 60>>, <<18, 78, 110>>,
      <<18, 78, 160>>, <<18, 78, 180>>, <<18, 88, 160>>, <<18, 88, 180>>, <<18, 93, 32>>,
      <<18, 93, 136>>, <<18, 93, 160>>, <<18, 98, 85>>, <<18, 98, 110>>, <<18, 98, 135>>,
      <<18, 98, 160>>, <<18, 98, 180>>, <<19, 29, 60>>, <<19, 44, 8>>, <<19, 59, 185>>,
      <<19, 69, 64>>, <<19, 69, 68>>, <<19, 69, 184>>, <<19, 79, 30>>, <<19, 94, 112>>,
      <<19, 94, 184>>, <<19, 99, 5>>, <<19, 99, 30>>, <<19, 99, 55>>, <<19, 99, 185>>,
      <<20, 20, 9>>, <<20, 20, 12>>, <<20, 20, 14>>, <<20, 20, 37>>, <<20, 45, 8>>,
      <<20, 60, 160>>, <<20, 60, 185>>, <<20, 65, 160>>, <<20, 70, 28>>, <<20, 70, 64>>,
      <<20, 70, 160>>, <<20, 75, 160>>, <<20, 80, 160>>, <<20, 95, 56>>, <<20, 100, 110>>,
      <<20, 100, 135>>, <<20, 100, 185>>, <<21, 1, 170>>, <<21, 21, 5>>, <<21, 21, 14>>,
      <<21, 21, 30>>, <<21, 21, 39>>, <<21, 41, 10>>, <<21, 51, 60>>, <<21, 61, 10>>,
      <<21, 61, 35>>, <<21, 61, 60>>, <<21, 61, 85>>, <<21, 71, 60>>, <<21, 71, 64>>,
      <<21, 71, 68>>, <<21, 71, 156>>, <<21, 71, 184>>, <<21, 76, 160>>, <<21, 81, 60>>,
      <<21, 96, 184>>, <<22, 2, 140>>, <<22, 12, 60>>, <<22, 22, 3>>, <<22, 22, 8>>,
      <<22, 22, 9>>, <<22, 22, 14>>, <<22, 22, 33>>, <<22, 22, 39>>, <<22, 42, 30>>,
      <<22, 62, 5>>, <<22, 62, 30>>, <<22, 72, 12>>, <<22, 72, 64>>, <<22, 82, 10>>,
      <<22, 92, 60>>, <<22, 97, 8>>, <<22, 97, 112>>, <<23, 3, 140>>, <<23, 3, 190>>,
      <<23, 23, 10>>, <<23, 23, 12>>, <<23, 23, 14>>, <<23, 23, 35>>, <<23, 23, 37>>,
      <<23, 23, 39>>, <<23, 23, 60>>, <<23, 33, 60>>, <<23, 53, 60>>, <<23, 63, 10>>,
      <<23, 63, 35>>, <<23, 63, 60>>, <<23, 63, 85>>, <<23, 73, 4>>, <<23, 73, 12>>,
      <<23, 73, 56>>, <<23, 73, 60>>, <<23, 73, 64>>, <<23, 73, 68>>, <<23, 73, 180>>,
      <<23, 73, 184>>, <<23, 83, 110>>, <<23, 93, 180>>, <<23, 98, 184>>, <<24, 4, 70>>,
      <<24, 4, 120>>, <<24, 4, 140>>, <<24, 4, 190>>, <<24, 24, 2>>, <<24, 24, 10>>,
      <<24, 24, 35>>, <<24, 24, 60>>, <<24, 34, 60>>, <<24, 74, 8>>, <<24, 74, 64>>,
      <<24, 84, 30>>, <<24, 99, 8>>, <<25, 25, 68>>, <<25, 60, 160>>, <<25, 65, 185>>,
      <<25, 75, 64>>, <<25, 75, 68>>, <<25, 75, 112>>, <<25, 75, 184>>, <<25, 85, 110>>,
      <<25, 100, 112>>, <<25, 100, 184>>, <<26, 6, 10>>, <<26, 6, 170>>, <<26, 26, 5>>,
      <<26, 26, 12>>, <<26, 26, 30>>, <<26, 26, 37>>, <<26, 26, 68>>, <<26, 46, 10>>,
      <<26, 46, 60>>, <<26, 56, 60>>, <<26, 66, 10>>, <<26, 66, 35>>, <<26, 66, 60>>,
      <<26, 66, 85>>, <<26, 76, 60>>, <<26, 76, 64>>, <<26, 76, 108>>, <<26, 96, 60>>,
      <<27, 2, 72>>, <<27, 2, 144>>, <<27, 27, 6>>, <<27, 27, 11>>, <<27, 27, 31>>,
      <<27, 27, 58>>, <<27, 27, 66>>, <<27, 47, 30>>, <<27, 67, 30>>, <<27, 77, 64>>,
      <<27, 77, 68>>, <<27, 77, 184>>, <<27, 87, 10>>, <<27, 97, 60>>, <<28, 28, 4>>,
      <<28, 28, 10>>, <<28, 28, 11>>, <<28, 28, 29>>, <<28, 28, 35>>, <<28, 48, 10>>,
      <<28, 48, 60>>, <<28, 53, 8>>, <<28, 58, 60>>, <<28, 68, 35>>, <<28, 68, 60>>,
      <<28, 68, 85>>, <<28, 78, 60>>, <<28, 78, 64>>, <<28, 78, 112>>, <<29, 9, 140>>,
      <<29, 9, 190>>, <<29, 29, 4>>, <<29, 29, 10>>, <<29, 29, 11>>, <<29, 29, 12>>,
      <<29, 29, 35>>, <<29, 29, 60>>, <<29, 29, 85>>, <<29, 54, 8>>, <<29, 54, 184>>,
      <<29, 69, 5>>, <<29, 79, 12>>, <<29, 79, 64>>, <<29, 79, 68>>, <<29, 89, 30>>,
      <<30, 5, 144>>, <<30, 5, 192>>, <<30, 30, 6>>, <<30, 30, 8>>, <<30, 30, 11>>,
      <<30, 30, 33>>, <<30, 30, 58>>, <<30, 30, 83>>, <<30, 55, 32>>, <<30, 80, 12>>,
      <<30, 80, 64>>, <<30, 90, 110>>, <<31, 1, 60>>, <<31, 1, 120>>, <<31, 31, 5>>,
      <<31, 31, 8>>, <<31, 31, 12>>, <<31, 31, 30>>, <<31, 31, 37>>, <<31, 31, 62>>,
      <<31, 31, 66>>, <<31, 31, 87>>, <<31, 31, 91>>, <<31, 51, 10>>, <<31, 51, 60>>,
      <<31, 61, 60>>, <<31, 71, 35>>, <<31, 71, 60>>, <<31, 71, 85>>, <<31, 81, 8>>,
      <<31, 81, 32>>, <<31, 81, 68>>, <<32, 12, 10>>, <<32, 52, 30>>, <<32, 57, 32>>,
      <<32, 72, 10>>, <<32, 82, 68>>, <<32, 92, 10>>, <<32, 92, 60>>, <<33, 3, 140>>,
      <<33, 33, 4>>, <<33, 53, 10>>, <<33, 53, 60>>, <<33, 63, 60>>, <<33, 73, 60>>,
      <<33, 73, 85>>, <<33, 83, 8>>, <<34, 4, 140>>, <<34, 24, 60>>, <<34, 34, 11>>,
      <<34, 59, 32>>, <<34, 74, 5>>, <<34, 84, 68>>, <<34, 94, 30>>, <<35, 35, 6>>,
      <<35, 35, 11>>, <<35, 60, 8>>, <<35, 85, 12>>, <<35, 85, 32>>, <<35, 95, 110>>,
      <<36, 1, 120>>, <<36, 6, 60>>, <<36, 11, 8>>, <<36, 36, 9>>, <<36, 36, 10>>,
      <<36, 36, 11>>, <<36, 46, 60>>, <<36, 56, 10>>, <<36, 56, 60>>, <<36, 61, 8>>,
      <<36, 61, 32>>, <<36, 66, 60>>, <<36, 76, 60>>, <<36, 76, 85>>, <<36, 86, 12>>,
      <<36, 86, 68>>, <<36, 96, 10>>, <<36, 96, 60>>, <<37, 37, 5>>, <<37, 37, 8>>,
      <<37, 57, 30>>, <<37, 62, 8>>, <<37, 77, 10>>, <<37, 87, 184>>, <<37, 97, 10>>,
      <<37, 97, 60>>, <<38, 18, 10>>, <<38, 48, 60>>, <<38, 58, 10>>, <<38, 58, 60>>,
      <<38, 63, 32>>, <<38, 68, 60>>, <<38, 78, 85>>, <<38, 78, 185>>, <<38, 88, 8>>,
      <<39, 9, 140>>, <<39, 29, 60>>, <<39, 79, 5>>, <<39, 79, 30>>, <<39, 89, 32>>,
      <<39, 99, 30>>, <<40, 15, 8>>, <<40, 40, 9>>, <<40, 40, 12>>, <<40, 40, 14>>,
      <<40, 40, 37>>, <<40, 90, 8>>, <<41, 1, 30>>, <<41, 1, 60>>, <<41, 1, 95>>,
      <<41, 1, 120>>, <<41, 1, 145>>, <<41, 1, 165>>, <<41, 1, 190>>, <<41, 21, 30>>,
      <<41, 41, 2>>, <<41, 41, 6>>, <<41, 41, 10>>, <<41, 41, 14>>, <<41, 41, 31>>,
      <<41, 41, 35>>, <<41, 41, 39>>, <<41, 51, 60>>, <<41, 61, 10>>, <<41, 61, 60>>,
      <<41, 71, 60>>, <<41, 91, 4>>, <<41, 91, 12>>, <<41, 91, 112>>, <<41, 91, 184>>,
      <<42, 2, 85>>, <<42, 2, 170>>, <<42, 2, 195>>, <<42, 42, 5>>, <<42, 42, 14>>,
      <<42, 42, 30>>, <<42, 42, 39>>, <<42, 62, 30>>, <<42, 67, 64>>, <<42, 82, 10>>,
      <<42, 82, 35>>, <<42, 92, 12>>, <<42, 92, 60>>, <<43, 3, 115>>, <<43, 3, 140>>,
      <<43, 23, 10>>, <<43, 43, 12>>, <<43, 43, 14>>, <<43, 43, 37>>, <<43, 43, 39>>,
      <<43, 53, 60>>, <<43, 63, 10>>, <<43, 63, 60>>, <<43, 68, 64>>, <<43, 73, 60>>,
      <<43, 73, 160>>, <<43, 78, 160>>, <<43, 83, 185>>, <<43, 88, 160>>, <<43, 93, 32>>,
      <<43, 93, 160>>, <<43, 98, 160>>, <<44, 4, 115>>, <<44, 4, 140>>, <<44, 19, 192>>,
      <<44, 24, 10>>, <<44, 24, 60>>, <<44, 44, 3>>, <<44, 44, 8>>, <<44, 44, 9>>,
      <<44, 44, 14>>, <<44, 44, 33>>, <<44, 44, 39>>, <<44, 69, 64>>, <<44, 84, 5>>,
      <<44, 84, 30>>, <<45, 5, 115>>, <<45, 45, 8>>, <<45, 45, 14>>, <<45, 45, 39>>,
      <<45, 70, 64>>, <<45, 70, 184>>, <<45, 95, 184>>, <<46, 1, 120>>, <<46, 6, 35>>,
      <<46, 6, 140>>, <<46, 6, 165>>, <<46, 6, 190>>, <<46, 26, 30>>, <<46, 46, 10>>,
      <<46, 46, 12>>, <<46, 46, 14>>, <<46, 46, 35>>, <<46, 46, 37>>, <<46, 46, 39>>,
      <<46, 46, 60>>, <<46, 56, 60>>, <<46, 66, 60>>, <<46, 71, 64>>, <<46, 96, 60>>,
      <<47, 7, 85>>, <<47, 7, 145>>, <<47, 7, 170>>, <<47, 7, 195>>, <<47, 22, 8>>,
      <<47, 47, 5>>, <<47, 47, 6>>, <<47, 47, 14>>, <<47, 47, 30>>, <<47, 47, 39>>,
      <<47, 67, 30>>, <<47, 72, 64>>, <<47, 87, 10>>, <<47, 87, 35>>, <<47, 97, 8>>,
      <<47, 97, 12>>, <<47, 97, 60>>, <<48, 3, 120>>, <<48, 8, 35>>, <<48, 8, 70>>,
      <<48, 8, 95>>, <<48, 8, 120>>, <<48, 8, 140>>, <<48, 8, 165>>, <<48, 8, 190>>,
      <<48, 18, 140>>, <<48, 28, 190>>, <<48, 48, 2>>, <<48, 48, 10>>, <<48, 48, 35>>,
      <<48, 48, 60>>, <<48, 58, 60>>, <<48, 68, 60>>, <<48, 98, 4>>, <<48, 98, 12>>,
      <<49, 9, 115>>, <<49, 29, 10>>, <<49, 49, 4>>, <<49, 49, 9>>, <<49, 49, 12>>,
      <<49, 49, 29>>, <<49, 49, 34>>, <<49, 49, 37>>, <<49, 49, 62>>, <<49, 74, 8>>,
      <<49, 89, 5>>, <<49, 89, 30>>, <<49, 99, 8>>, <<49, 99, 12>>, <<49, 99, 68>>,
      <<50, 0, 116>>, <<50, 50, 68>>, <<50, 100, 68>>, <<51, 1, 60>>, <<51, 1, 120>>,
      <<51, 1, 140>>, <<51, 1, 168>>, <<51, 11, 165>>, <<51, 11, 190>>, <<51, 51, 10>>,
      <<51, 51, 35>>, <<51, 51, 60>>, <<51, 61, 60>>, <<52, 2, 116>>, <<52, 2, 188>>,
      <<52, 12, 10>>, <<52, 12, 85>>, <<52, 12, 145>>, <<52, 12, 170>>, <<52, 12, 195>>,
      <<52, 52, 5>>, <<52, 52, 12>>, <<52, 52, 30>>, <<52, 52, 37>>, <<52, 52, 68>>,
      <<52, 72, 10>>, <<52, 92, 10>>, <<52, 92, 35>>, <<52, 92, 60>>, <<53, 3, 96>>,
      <<53, 3, 140>>, <<53, 3, 168>>, <<53, 3, 192>>, <<53, 13, 95>>, <<53, 13, 140>>,
      <<53, 13, 165>>, <<53, 13, 190>>, <<53, 23, 60>>, <<53, 23, 140>>, <<53, 33, 190>>,
      <<53, 53, 7>>, <<53, 53, 8>>, <<53, 53, 9>>, <<53, 53, 10>>, <<53, 53, 34>>,
      <<53, 53, 35>>, <<53, 53, 58>>, <<53, 53, 60>>, <<53, 63, 60>>, <<54, 4, 72>>,
      <<54, 4, 144>>, <<54, 4, 164>>, <<54, 54, 6>>, <<54, 54, 11>>, <<54, 54, 31>>,
      <<54, 54, 58>>, <<54, 54, 66>>, <<54, 94, 5>>, <<54, 94, 30>>, <<55, 5, 12>>,
      <<55, 5, 164>>, <<55, 5, 168>>, <<55, 5, 188>>, <<55, 30, 8>>, <<55, 55, 7>>,
      <<55, 55, 11>>, <<55, 55, 12>>, <<55, 95, 185>>, <<56, 6, 140>>, <<56, 6, 164>>,
      <<56, 6, 196>>, <<56, 36, 10>>, <<56, 56, 4>>, <<56, 56, 10>>, <<56, 56, 11>>,
      <<56, 56, 29>>, <<56, 56, 35>>, <<56, 81, 8>>, <<56, 96, 10>>, <<56, 96, 35>>,
      <<56, 96, 60>>, <<57, 2, 120>>, <<57, 7, 60>>, <<57, 7, 116>>, <<57, 7, 120>>,
      <<57, 7, 164>>, <<57, 7, 168>>, <<57, 7, 172>>, <<57, 17, 60>>, <<57, 17, 170>>,
      <<57, 17, 195>>, <<57, 57, 1>>, <<57, 57, 3>>, <<57, 57, 5>>, <<57, 57, 7>>,
      <<57, 57, 9>>, <<57, 57, 11>>, <<57, 57, 30>>, <<57, 77, 10>>, <<57, 97, 10>>,
      <<57, 97, 35>>, <<57, 97, 60>>, <<58, 8, 140>>, <<58, 8, 164>>, <<58, 18, 115>>,
      <<58, 18, 140>>, <<58, 18, 165>>, <<58, 18, 190>>, <<58, 38, 190>>, <<58, 48, 60>>,
      <<58, 58, 4>>, <<58, 58, 10>>, <<58, 58, 11>>, <<58, 58, 12>>, <<58, 58, 35>>,
      <<58, 58, 60>>, <<58, 58, 85>>, <<58, 83, 8>>, <<59, 9, 164>>, <<59, 9, 168>>,
      <<59, 9, 188>>, <<59, 59, 7>>, <<59, 59, 11>>, <<59, 59, 12>>, <<59, 59, 32>>,
      <<59, 59, 37>>, <<59, 59, 62>>, <<59, 59, 87>>, <<59, 79, 30>>, <<59, 99, 5>>,
      <<59, 99, 30>>, <<60, 10, 12>>, <<60, 10, 144>>, <<60, 10, 164>>, <<60, 10, 192>>,
      <<60, 35, 192>>, <<60, 60, 6>>, <<60, 60, 8>>, <<60, 60, 11>>, <<60, 60, 33>>,
      <<60, 60, 58>>, <<60, 60, 83>>, <<60, 85, 32>>, <<60, 100, 185>>, <<61, 1, 70>>,
      <<61, 1, 140>>, <<61, 1, 190>>, <<61, 11, 8>>, <<61, 11, 116>>, <<61, 11, 168>>,
      <<61, 11, 192>>, <<61, 21, 5>>, <<61, 41, 10>>, <<61, 61, 7>>, <<61, 61, 8>>,
      <<61, 61, 9>>, <<61, 61, 10>>, <<61, 61, 11>>, <<61, 61, 12>>, <<61, 61, 32>>,
      <<61, 61, 35>>, <<61, 61, 58>>, <<61, 61, 83>>, <<62, 2, 30>>, <<62, 2, 60>>,
      <<62, 2, 120>>, <<62, 2, 170>>, <<62, 7, 120>>, <<62, 12, 60>>, <<62, 12, 188>>,
      <<62, 22, 195>>, <<62, 37, 8>>, <<62, 42, 30>>, <<62, 62, 5>>, <<62, 62, 8>>,
      <<62, 62, 12>>, <<62, 62, 30>>, <<62, 62, 37>>, <<62, 62, 62>>, <<62, 62, 66>>,
      <<62, 62, 87>>, <<62, 62, 91>>, <<62, 82, 10>>, <<62, 87, 184>>, <<62, 92, 60>>,
      <<63, 3, 70>>, <<63, 3, 140>>, <<63, 3, 190>>, <<63, 13, 12>>, <<63, 13, 140>>,
      <<63, 13, 168>>, <<63, 23, 35>>, <<63, 23, 115>>, <<63, 23, 140>>, <<63, 23, 165>>,
      <<63, 23, 190>>, <<63, 38, 168>>, <<63, 53, 60>>, <<63, 63, 7>>, <<63, 63, 10>>,
      <<63, 63, 32>>, <<63, 63, 35>>, <<63, 63, 60>>, <<63, 63, 85>>, <<63, 88, 8>>,
      <<64, 14, 4>>, <<64, 24, 10>>, <<64, 24, 35>>, <<64, 84, 30>>, <<64, 89, 32>>,
      <<65, 15, 188>>, <<65, 15, 196>>, <<65, 90, 8>>, <<66, 6, 140>>, <<66, 6, 190>>,
      <<66, 16, 116>>, <<66, 26, 5>>, <<66, 46, 10>>, <<66, 66, 4>>, <<66, 96, 60>>,
      <<67, 2, 120>>, <<67, 7, 60>>, <<67, 7, 120>>, <<67, 7, 170>>, <<67, 17, 60>>,
      <<67, 17, 144>>, <<67, 47, 30>>, <<67, 87, 10>>, <<67, 97, 60>>, <<68, 8, 70>>,
      <<68, 8, 140>>, <<68, 18, 140>>, <<68, 28, 165>>, <<68, 48, 10>>, <<68, 48, 60>>,
      <<68, 58, 60>>, <<68, 68, 11>>, <<68, 93, 32>>, <<69, 29, 10>>, <<69, 29, 195>>,
      <<69, 44, 8>>, <<69, 69, 5>>, <<69, 69, 6>>, <<69, 89, 30>>, <<70, 20, 12>>,
      <<70, 20, 116>>, <<70, 20, 172>>, <<70, 45, 8>>, <<70, 70, 6>>, <<70, 70, 11>>,
      <<71, 1, 140>>, <<71, 31, 5>>, <<71, 51, 10>>, <<71, 71, 9>>, <<72, 2, 60>>,
      <<72, 2, 120>>, <<72, 7, 120>>, <<72, 12, 10>>, <<72, 12, 60>>, <<72, 12, 170>>,
      <<72, 12, 190>>, <<72, 22, 8>>, <<72, 52, 30>>, <<72, 72, 9>>, <<72, 72, 10>>,
      <<72, 72, 11>>, <<72, 92, 10>>, <<72, 92, 60>>, <<72, 97, 8>>, <<73, 3, 140>>,
      <<73, 13, 140>>, <<73, 23, 12>>, <<73, 23, 140>>, <<73, 23, 144>>, <<73, 23, 188>>,
      <<73, 23, 196>>, <<73, 53, 10>>, <<73, 53, 60>>, <<73, 73, 4>>, <<73, 73, 12>>,
      <<74, 34, 195>>, <<74, 74, 5>>, <<74, 74, 8>>, <<74, 94, 30>>, <<74, 99, 8>>,
      <<76, 1, 168>>, <<76, 6, 140>>, <<76, 26, 12>>, <<76, 36, 10>>, <<76, 56, 10>>,
      <<76, 96, 10>>, <<76, 96, 60>>, <<77, 2, 120>>, <<77, 2, 168>>, <<77, 7, 60>>,
      <<77, 7, 120>>, <<77, 17, 190>>, <<77, 37, 5>>, <<77, 57, 30>>, <<77, 77, 10>>,
      <<77, 97, 10>>, <<77, 97, 60>>, <<78, 8, 140>>, <<78, 18, 140>>, <<78, 28, 4>>,
      <<78, 48, 60>>, <<78, 53, 8>>, <<78, 58, 10>>, <<78, 58, 60>>, <<79, 4, 72>>,
      <<79, 4, 144>>, <<79, 19, 170>>, <<79, 29, 188>>, <<79, 39, 85>>, <<79, 39, 170>>,
      <<79, 39, 195>>, <<79, 79, 5>>, <<79, 79, 12>>, <<79, 79, 30>>, <<79, 79, 37>>,
      <<79, 99, 30>>, <<80, 5, 72>>, <<80, 5, 144>>, <<80, 30, 8>>, <<80, 30, 188>>,
      <<80, 80, 9>>, <<80, 80, 12>>, <<80, 80, 14>>, <<80, 80, 37>>, <<81, 1, 35>>,
      <<81, 1, 70>>, <<81, 1, 115>>, <<81, 1, 140>>, <<81, 6, 96>>, <<81, 6, 168>>,
      <<81, 6, 192>>, <<81, 31, 192>>, <<81, 41, 10>>, <<81, 41, 35>>, <<81, 61, 10>>,
      <<81, 81, 7>>, <<81, 81, 8>>, <<81, 81, 9>>, <<81, 81, 33>>, <<81, 81, 34>>,
      <<82, 2, 30>>, <<82, 2, 60>>, <<82, 2, 95>>, <<82, 2, 120>>, <<82, 2, 145>>,
      <<82, 2, 165>>, <<82, 2, 190>>, <<82, 7, 120>>, <<82, 22, 190>>, <<82, 42, 5>>,
      <<82, 42, 30>>, <<82, 82, 2>>, <<82, 82, 6>>, <<82, 82, 10>>, <<82, 82, 14>>,
      <<82, 82, 31>>, <<82, 82, 35>>, <<82, 82, 39>>, <<82, 92, 60>>, <<83, 3, 70>>,
      <<83, 3, 115>>, <<83, 3, 140>>, <<83, 13, 140>>, <<83, 33, 116>>, <<83, 53, 60>>,
      <<83, 63, 10>>, <<83, 83, 6>>, <<83, 83, 31>>, <<84, 4, 85>>, <<84, 4, 170>>,
      <<84, 4, 195>>, <<84, 24, 10>>, <<84, 24, 170>>, <<84, 44, 85>>, <<84, 44, 195>>,
      <<84, 59, 32>>, <<84, 84, 5>>, <<84, 84, 14>>, <<84, 84, 30>>, <<84, 84, 39>>,
      <<85, 5, 115>>, <<85, 5, 140>>, <<85, 10, 144>>, <<85, 10, 168>>, <<85, 15, 140>>,
      <<85, 60, 8>>, <<85, 85, 7>>, <<85, 85, 12>>, <<85, 85, 32>>, <<85, 85, 37>>,
      <<86, 6, 115>>, <<86, 6, 140>>, <<86, 11, 8>>, <<86, 36, 188>>, <<86, 46, 10>>,
      <<86, 46, 35>>, <<86, 61, 8>>, <<86, 86, 12>>, <<86, 86, 14>>, <<86, 86, 37>>,
      <<86, 86, 39>>, <<86, 96, 60>>, <<87, 2, 120>>, <<87, 7, 60>>, <<87, 7, 95>>,
      <<87, 7, 120>>, <<87, 7, 165>>, <<87, 7, 190>>, <<87, 27, 190>>, <<87, 37, 8>>,
      <<87, 37, 164>>, <<87, 47, 5>>, <<87, 47, 30>>, <<87, 62, 8>>, <<87, 87, 10>>,
      <<87, 87, 11>>, <<87, 87, 35>>, <<87, 97, 60>>, <<88, 8, 115>>, <<88, 8, 140>>,
      <<88, 13, 96>>, <<88, 13, 192>>, <<88, 38, 192>>, <<88, 48, 10>>, <<88, 48, 35>>,
      <<88, 48, 60>>, <<88, 63, 192>>, <<88, 88, 3>>, <<88, 88, 8>>, <<88, 88, 9>>,
      <<88, 88, 14>>, <<88, 88, 33>>, <<88, 88, 39>>, <<89, 9, 85>>, <<89, 9, 145>>,
      <<89, 9, 170>>, <<89, 9, 195>>, <<89, 14, 168>>, <<89, 29, 10>>, <<89, 29, 170>>,
      <<89, 39, 164>>, <<89, 39, 168>>, <<89, 49, 195>>, <<89, 89, 1>>, <<89, 89, 3>>,
      <<89, 89, 5>>, <<89, 89, 7>>, <<89, 89, 9>>, <<89, 89, 11>>, <<89, 89, 30>>,
      <<89, 89, 32>>, <<89, 89, 34>>, <<90, 0, 140>>, <<90, 10, 115>>, <<90, 15, 192>>,
      <<90, 40, 12>>, <<90, 90, 8>>, <<90, 90, 14>>, <<90, 90, 39>>, <<91, 1, 140>>,
      <<91, 41, 164>>, <<91, 51, 10>>, <<91, 51, 35>>, <<91, 91, 4>>, <<91, 91, 11>>,
      <<91, 91, 12>>, <<91, 91, 29>>, <<92, 2, 60>>, <<92, 2, 120>>, <<92, 2, 140>>,
      <<92, 7, 120>>, <<92, 12, 35>>, <<92, 12, 140>>, <<92, 12, 165>>, <<92, 12, 190>>,
      <<92, 42, 188>>, <<92, 52, 5>>, <<92, 52, 30>>, <<92, 72, 10>>, <<92, 92, 10>>,
      <<92, 92, 12>>, <<92, 92, 14>>, <<92, 92, 35>>, <<92, 92, 37>>, <<92, 92, 39>>,
      <<92, 92, 60>>, <<93, 13, 115>>, <<93, 18, 168>>, <<93, 43, 12>>, <<93, 43, 168>>,
      <<93, 53, 10>>, <<93, 53, 35>>, <<93, 93, 7>>, <<93, 93, 11>>, <<93, 93, 32>>,
      <<94, 14, 85>>, <<94, 14, 145>>, <<94, 14, 170>>, <<94, 14, 195>>, <<94, 34, 170>>,
      <<94, 44, 8>>, <<94, 54, 195>>, <<94, 94, 5>>, <<94, 94, 6>>, <<94, 94, 14>>,
      <<94, 94, 30>>, <<94, 94, 39>>, <<95, 15, 115>>, <<95, 20, 144>>, <<95, 45, 8>>,
      <<95, 95, 6>>, <<95, 95, 11>>, <<95, 95, 31>>, <<96, 1, 120>>, <<96, 6, 120>>,
      <<96, 6, 140>>, <<96, 11, 120>>, <<96, 16, 35>>, <<96, 16, 70>>, <<96, 16, 95>>,
      <<96, 16, 120>>, <<96, 16, 140>>, <<96, 16, 165>>, <<96, 16, 190>>, <<96, 26, 140>>,
      <<96, 36, 140>>, <<96, 36, 190>>, <<96, 46, 12>>, <<96, 46, 60>>, <<96, 46, 140>>,
      <<96, 56, 35>>, <<96, 56, 165>>, <<96, 56, 190>>, <<96, 76, 190>>, <<96, 96, 2>>,
      <<96, 96, 10>>, <<96, 96, 35>>, <<96, 96, 60>>, <<97, 2, 120>>, <<97, 7, 120>>,
      <<97, 7, 140>>, <<97, 17, 35>>, <<97, 17, 140>>, <<97, 17, 165>>, <<97, 17, 190>>,
      <<97, 22, 8>>, <<97, 22, 192>>, <<97, 47, 192>>, <<97, 57, 5>>, <<97, 57, 30>>,
      <<97, 77, 10>>, <<97, 97, 8>>, <<97, 97, 9>>, <<97, 97, 10>>, <<97, 97, 11>>,
      <<97, 97, 12>>, <<97, 97, 33>>, <<97, 97, 35>>, <<97, 97, 58>>, <<97, 97, 60>>,
      <<98, 18, 115>>, <<98, 48, 60>>, <<98, 58, 10>>, <<98, 98, 4>>, <<98, 98, 9>>,
      <<98, 98, 12>>, <<98, 98, 29>>, <<98, 98, 34>>, <<98, 98, 37>>, <<98, 98, 62>>,
      <<99, 19, 85>>, <<99, 19, 145>>, <<99, 19, 170>>, <<99, 19, 195>>, <<99, 39, 170>>,
      <<99, 49, 4>>, <<99, 49, 12>>, <<99, 49, 188>>, <<99, 74, 8>>, <<99, 79, 30>>,
      <<99, 99, 5>>, <<99, 99, 8>>, <<99, 99, 12>>, <<99, 99, 30>>, <<99, 99, 37>>,
      <<99, 99, 58>>, <<99, 99, 62>>, <<100, 0, 58>>, <<100, 0, 114>>, <<100, 0, 116>>,
      <<100, 100, 68>> }

\* int(c1 * u + c2 * (1 - u)) for u = i / 200: the integer collidepoint
\* tests for sample i
sampleCoord(c1, c2, i) ==
    ((c1 * i + c2 * (segmentSamples - i)) \div segmentSamples)
        - (IF <<c1, c2, i>> \in TruncatedBelow THEN 1 ELSE 0)

crossObstacles(obs, x1, x2, y1, y2) ==
    \E r \in 1..Len(obs) : \E i \in 0..segmentSamples :
        collidepoint(obs[r], sampleCoord(x1, x2, i), sampleCoord(y1, y2, i), 1)

RECURSIVE nearestLoop(_, _, _, _, _)
nearestLoop(g, n, i, dmin, nnear) ==
    IF i >= n THEN nnear
    ELSE IF distance(g, i, n) < dmin
         THEN nearestLoop(g, n, i + 1, distance(g, i, n), i)
         ELSE nearestLoop(g, n, i + 1, dmin, nnear)

\* nearest() whose loop runs over range(0, n + 1)
nearest_includesSelf(g, n) == nearestLoop(g, n + 1, 0, distance(g, 0, n), 0)

nearest(g, n) == nearestLoop(g, n, 0, distance(g, 0, n), 0)

\* isFree() whose point test also counts the right and bottom edge of a
\* rectangle as inside
isFree_inclusiveEdges(g, obs) ==
    LET n == number_of_nodes(g) - 1
    IN  IF \E r \in 1..Len(obs) :
               /\ obs[r].left <= g.x[n + 1]
               /\ g.x[n + 1] <= obs[r].left + obs[r].w
               /\ obs[r].top <= g.y[n + 1]
               /\ g.y[n + 1] <= obs[r].top + obs[r].h
        THEN [ok |-> FALSE, g |-> remove_node(g, n)]
        ELSE [ok |-> TRUE, g |-> g]

\* isFree() returns ok and leaves the graph g
isFree(g, obs) ==
    LET n == number_of_nodes(g) - 1
    IN  IF \E r \in 1..Len(obs) : collidepoint(obs[r], g.x[n + 1], g.y[n + 1], 1)
        THEN [ok |-> FALSE, g |-> remove_node(g, n)]
        ELSE [ok |-> TRUE, g |-> g]

\* connect() that reports the rejection but keeps the candidate
connect_keepsNode(g, obs, n1, n2) ==
    IF crossObstacles(obs, g.x[n1 + 1], g.x[n2 + 1], g.y[n1 + 1], g.y[n2 + 1])
    THEN [ok |-> FALSE, g |-> g]
    ELSE [ok |-> TRUE, g |-> add_edge(g, n1, n2)]

\* connect() returns ok and leaves the graph g
connect(g, obs, n1, n2) ==
    IF crossObstacles(obs, g.x[n1 + 1], g.x[n2 + 1], g.y[n1 + 1], g.y[n2 + 1])
    THEN [ok |-> FALSE, g |-> remove_node(g, n2)]
    ELSE [ok |-> TRUE, g |-> add_edge(g, n1, n2)]

\* step() whose snap test compares x with goal[1] and y with goal[0]
step_snapAxesSwapped(g, nnear, nrand) ==
    LET d == distance(g, nnear, nrand)
    IN  IF d > Fixed(dmax)
        THEN LET xnear == g.x[nnear + 1]
                 ynear == g.y[nnear + 1]
                 px == g.x[nrand + 1] - xnear
                 py == g.y[nrand + 1] - ynear
                 d2 == px * px + py * py
                 sx == SteerCoord(xnear, dmax, px, d2)
                 sy == SteerCoord(ynear, dmax, py, d2)
                 h == remove_node(g, nrand)
             IN  IF Abs(sx - g.goal[2]) < dmax /\ Abs(sy - g.goal[1]) < dmax
                 THEN [add_node(h, nrand, g.goal[1], g.goal[2])
                          EXCEPT !.goalstate = nrand, !.goalFlag = TRUE]
                 ELSE add_node(h, nrand, sx, sy)
        ELSE g

\* step() that clears the goal flag when the steered point is not snapped
step_clearsFlag(g, nnear, nrand) ==
    LET d == distance(g, nnear, nrand)
    IN  IF d > Fixed(dmax)
        THEN LET xnear == g.x[nnear + 1]
                 ynear == g.y[nnear + 1]
                 px == g.x[nrand + 1] - xnear
                 py == g.y[nrand + 1] - ynear
                 d2 == px * px + py * py
                 sx == SteerCoord(xnear, dmax, px, d2)
                 sy == SteerCoord(ynear, dmax, py, d2)
                 h == remove_node(g, nrand)
             IN  IF Abs(sx - g.goal[1]) < dmax /\ Abs(sy - g.goal[2]) < dmax
                 THEN [add_node(h, nrand, g.goal[1], g.goal[2])
                          EXCEPT !.goalstate = nrand, !.goalFlag = TRUE]
                 ELSE [add_node(h, nrand, sx, sy) EXCEPT !.goalFlag = FALSE]
        ELSE g

step(g, nnear, nrand) ==
    LET d == distance(g, nnear, nrand)
    IN  IF d > Fixed(dmax)
        THEN LET xnear == g.x[nnear + 1]
                 ynear == g.y[nnear + 1]
                 px == g.x[nrand + 1] - xnear
                 py == g.y[nrand + 1] - ynear
                 d2 == px * px + py * py
                 sx == SteerCoord(xnear, dmax, px, d2)
                 sy == SteerCoord(ynear, dmax, py, d2)
                 h == remove_node(g, nrand)
             IN  IF Abs(sx - g.goal[1]) < dmax /\ Abs(sy - g.goal[2]) < dmax
                 THEN [add_node(h, nrand, g.goal[1], g.goal[2])
                          EXCEPT !.goalstate = nrand, !.goalFlag = TRUE]
                 ELSE add_node(h, nrand, sx, sy)
        ELSE g

\* the loop body of rewire() without the test "dist < 35"
rewireNode_noRadiusTest(g, obs, new_node, i) ==
    IF i = new_node \/ i >= Len(g.cost) \/ new_node >= Len(g.cost)
    THEN g
    ELSE LET dist == distance(g, i, new_node)
             new_cost == Plus(g.cost[new_node + 1], dist)
         IN  IF /\ new_cost < g.cost[i + 1]
                /\ ~crossObstacles(obs, g.x[new_node + 1], g.x[i + 1],
                                   g.y[new_node + 1], g.y[i + 1])
             THEN [g EXCEPT !.parent = [@ EXCEPT ![i + 1] = new_node],
                            !.cost = [@ EXCEPT ![i + 1] = new_cost]]
             ELSE g

\* the loop body of rewire() without the test "new_cost < cost[i]"
rewireNode_noCostTest(g, obs, new_node, i) ==
    IF i = new_node \/ i >= Len(g.cost) \/ new_node >= Len(g.cost)
    THEN g
    ELSE LET dist == distance(g, i, new_node)
             new_cost == Plus(g.cost[new_node + 1], dist)
         IN  IF /\ dist < Fixed(rewireRadius)
                /\ ~crossObstacles(obs, g.x[new_node + 1], g.x[i + 1],
                                   g.y[new_node + 1], g.y[i + 1])
             THEN [g EXCEPT !.parent = [@ EXCEPT ![i + 1] = new_node],
                            !.cost = [@ EXCEPT ![i + 1] = new_cost]]
             ELSE g

\* the loop body of rewire() without the segment test
rewireNode_noCollisionCheck(g, obs, new_node, i) ==
    IF i = new_node \/ i >= Len(g.cost) \/ new_node >= Len(g.cost)
    THEN g
    ELSE LET dist == distance(g, i, new_node)
             new_cost == Plus(g.cost[new_node + 1], dist)
         IN  IF dist < Fixed(rewireRadius) /\ new_cost < g.cost[i + 1]
             THEN [g EXCEPT !.parent = [@ EXCEPT ![i + 1] = new_node],
                            !.cost = [@ EXCEPT ![i + 1] = new_cost]]
             ELSE g

\* the loop body of rewire() with "new_cost <= cost[i]"
rewireNode_nonStrict(g, obs, new_node, i) ==
    IF i = new_node \/ i >= Len(g.cost) \/ new_node >= Len(g.cost)
    THEN g
    ELSE LET dist == distance(g, i, new_node)
             new_cost == Plus(g.cost[new_node + 1], dist)
         IN  IF /\ dist < Fixed(rewireRadius)
                /\ new_cost <= g.cost[i + 1]
                /\ ~crossObstacles(obs, g.x[new_node + 1], g.x[i + 1],
                                   g.y[new_node + 1], g.y[i + 1])
             THEN [g EXCEPT !.parent = [@ EXCEPT ![i + 1] = new_node],
                            !.cost = [@ EXCEPT ![i + 1] = new_cost]]
             ELSE g

\* the loop body of rewire() that re-parents but leaves cost[i] as it was
rewireNode_parentOnly(g, obs, new_node, i) ==
    IF i = new_node \/ i >= Len(g.cost) \/ new_node >= Len(g.cost)
    THEN g
    ELSE LET dist == distance(g, i, new_node)
             new_cost == Plus(g.cost[new_node + 1], dist)
         IN  IF /\ dist < Fixed(rewireRadius)
                /\ new_cost < g.cost[i + 1]
                /\ ~crossObstacles(obs, g.x[new_node + 1], g.x[i + 1],
                                   g.y[new_node + 1], g.y[i + 1])
             THEN [g EXCEPT !.parent = [@ EXCEPT ![i + 1] = new_node]]
             ELSE g

\* one iteration of the loop of rewire(), for index i
rewireNode(g, obs, new_node, i) ==
    IF i = new_node \/ i >= Len(g.cost) \/ new_node >= Len(g.cost)
    THEN g
    ELSE LET dist == distance(g, i, new_node)
             new_cost == Plus(g.cost[new_node + 1], dist)
         IN  IF /\ dist < Fixed(rewireRadius)
                /\ new_cost < g.cost[i + 1]
                /\ ~crossObstacles(obs, g.x[new_node + 1], g.x[i + 1],
                                   g.y[new_node + 1], g.y[i + 1])
             THEN [g EXCEPT !.parent = [@ EXCEPT ![i + 1] = new_node],
                            !.cost = [@ EXCEPT ![i + 1] = new_cost]]
             ELSE g

RECURSIVE rewireLoop(_, _, _, _)
rewireLoop(g, obs, new_node, i) ==
    IF i >= Len(g.x) THEN g
    ELSE rewireLoop(rewireNode(g, obs, new_node, i), obs, new_node, i + 1)

rewire(g, obs, new_node) ==
    IF new_node >= Len(g.x) THEN g ELSE rewireLoop(g, obs, new_node, 0)

expand(g, obs, sample) ==
    LET n == number_of_nodes(g)
        free == isFree(add_node(g, n, sample[1], sample[2]), obs)
    IN  IF free.ok
        THEN LET xnearest == nearest(free.g, n)
                 stepped == step(free.g, xnearest, n)
                 connected == connect(stepped, obs, xnearest, n)
             IN  rewire(connected.g, obs, n)
        ELSE free.g

bias(g, obs, ngoal) ==
    LET n == number_of_nodes(g)
        added == add_node(g, n, ngoal[1], ngoal[2])
        nnear == nearest(added, n)
        stepped == step(added, nnear, n)
        connected == connect(stepped, obs, nnear, n)
    IN  rewire(connected.g, obs, n)

\* the growth calls a driver can make: expand() with the point that
\* sample_envir() draws, or bias(self.goal)
callOf(kind, p) == [kind |-> kind, p |-> p]

Calls == {callOf("expand", p) : p \in SamplePoints} \cup {callOf("bias", selfGoal)}

call(g, obs, c) ==
    IF c.kind = "bias" THEN bias(g, obs, c.p) ELSE expand(g, obs, c.p)

\* the call c ends in a rollback: isFree() returns False (expand only) or
\* connect() returns False
rejected(g, obs, c) ==
    LET n == number_of_nodes(g)
        added == add_node(g, n, c.p[1], c.p[2])
        free == IF c.kind = "bias" THEN [ok |-> TRUE, g |-> added]
                                   ELSE isFree(added, obs)
    IN  \/ ~free.ok
        \/ LET nnear == nearest(free.g, n)
           IN  ~connect(step(free.g, nnear, n), obs, nnear, n).ok

\* the call c reaches its rewire(n)
rewireCalled(g, obs, c) ==
    \/ c.kind = "bias"
    \/ isFree(add_node(g, number_of_nodes(g), c.p[1], c.p[2]), obs).ok

\* the graph on which the call c calls rewire(n): the one connect() leaves
rewireInput(g, obs, c) ==
    LET n == number_of_nodes(g)
        added == add_node(g, n, c.p[1], c.p[2])
        free == IF c.kind = "bias" THEN added ELSE isFree(added, obs).g
        nnear == nearest(free, n)
    IN  connect(step(free, nnear, n), obs, nnear, n).g

\* the while loop of path_to_goal(): the indices appended after goalstate
RECURSIVE pathWalk(_, _)
pathWalk(par, newpos) ==
    IF newpos = 0 THEN <<0>>
    ELSE <<newpos>> \o pathWalk(par, par[newpos + 1])

pathGuard(g) ==
    g.goalFlag /\ g.goalstate # None /\ g.goalstate < Len(g.parent)

\* path_to_goal() that returns self.goalFlag when the guard fails
path_to_goal_returnsFlag(g, oldPath) ==
    IF pathGuard(g)
    THEN [ok |-> TRUE,
          path |-> <<g.goalstate>> \o pathWalk(g.parent, g.parent[g.goalstate + 1])]
    ELSE [ok |-> g.goalFlag, path |-> oldPath]

\* path_to_goal() returns ok and leaves self.path = path
path_to_goal(g, oldPath) ==
    IF pathGuard(g)
    THEN [ok |-> TRUE,
          path |-> <<g.goalstate>> \o pathWalk(g.parent, g.parent[g.goalstate + 1])]
    ELSE [ok |-> FALSE, path |-> oldPath]

getPathCord(g, p) == [k \in 1..Len(p) |-> <<g.x[p[k] + 1], g.y[p[k] + 1]>>]

\* how a getPathCord() call ends: the function has no raise statement, so
\* the only error it can end in is the IndexError of self.x[node]
getPathCordOutcome(g, p) ==
    IF \E k \in 1..Len(p) : p[k] >= Len(g.x) \/ p[k] >= Len(g.y)
    THEN [status |-> "IndexError", coords |-> <<>>]
    ELSE [status |-> "returned", coords |-> getPathCord(g, p)]

(***************************************************************************)
(* The state machine: RRTGraph.__init__, then any sequence of expand(),    *)
(* bias(goal) and path_to_goal() calls.  op is the last call made and ret  *)
(* the value path_to_goal() returned when it was the last call.            *)
(***************************************************************************)
\* the frame before makeobs() is called
makeobsIdle ==
    [obs |-> <<>>, i |-> 0, j |-> 0, printed |-> FALSE, pc |-> "idle"]

Init ==
    /\ x = <<start[1]>>
    /\ y = <<start[2]>>
    /\ parent = <<0>>
    /\ cost = <<0>>
    /\ goalFlag = FALSE
    /\ goalstate = None
    /\ path = <<>>
    /\ obstacles = <<Obstacle>>
    /\ op = "init"
    /\ ret = FALSE
    /\ selfGoal = goal
    /\ iteration = 0
    /\ drawn = <<>>
    /\ makeobsState = makeobsIdle

CanGrow == Len(x) < MaxNodes /\ Len(cost) + 2 <= MaxCostLen

Install(g) ==
    /\ x' = g.x
    /\ y' = g.y
    /\ parent' = g.parent
    /\ cost' = g.cost
    /\ goalFlag' = g.goalFlag
    /\ goalstate' = g.goalstate

Expand ==
    /\ CanGrow
    /\ \E sample \in SamplePoints : Install(expand(Graph, obstacles, sample))
    /\ op' = "expand"
    /\ ret' = FALSE
    /\ UNCHANGED <<path, obstacles, selfGoal, iteration, drawn, makeobsState>>

Bias ==
    /\ CanGrow
    /\ Install(bias(Graph, obstacles, selfGoal))
    /\ op' = "bias"
    /\ ret' = FALSE
    /\ UNCHANGED <<path, obstacles, selfGoal, iteration, drawn, makeobsState>>

PathToGoal ==
    /\ LET r == path_to_goal(Graph, path)
       IN  /\ path' = r.path
           /\ ret' = r.ok
    /\ op' = "path_to_goal"
    /\ UNCHANGED <<x, y, parent, cost, goalFlag, goalstate, obstacles,
                   selfGoal, iteration, drawn, makeobsState>>

Next == Expand \/ Bias \/ PathToGoal

Spec == Init /\ [][Next]_vars

(***************************************************************************)
(* Scenario A: no obstacle, start (10,50), goal (600,50), and a driver     *)
(* whose every iteration is bias(goal); it may ask path_to_goal() at any   *)
(* time.                                                                   *)
(***************************************************************************)
InitA ==
    /\ x = <<start[1]>>
    /\ y = <<start[2]>>
    /\ parent = <<0>>
    /\ cost = <<0>>
    /\ goalFlag = FALSE
    /\ goalstate = None
    /\ path = <<>>
    /\ obstacles = <<>>
    /\ op = "init"
    /\ ret = FALSE
    /\ selfGoal = goalA
    /\ iteration = 0
    /\ drawn = <<>>
    /\ makeobsState = makeobsIdle

BiasIteration ==
    /\ iteration < MaxIterations
    /\ Install(bias(Graph, obstacles, selfGoal))
    /\ iteration' = iteration + 1
    /\ op' = "bias"
    /\ ret' = FALSE
    /\ UNCHANGED <<path, obstacles, selfGoal, drawn, makeobsState>>

NextA == BiasIteration \/ PathToGoal

SpecA == InitA /\ [][NextA]_vars

(***************************************************************************)
(* Scenario with the goal inside an obstacle: start (10,50), goal (60,50)  *)
(* and the obstacle Rect((55,45),(10,10)); any sequence of calls.          *)
(***************************************************************************)
InitBlockedGoal ==
    /\ x = <<start[1]>>
    /\ y = <<start[2]>>
    /\ parent = <<0>>
    /\ cost = <<0>>
    /\ goalFlag = FALSE
    /\ goalstate = None
    /\ path = <<>>
    /\ obstacles = <<ObstacleOnGoal>>
    /\ op = "init"
    /\ ret = FALSE
    /\ selfGoal = goal
    /\ iteration = 0
    /\ drawn = <<>>
    /\ makeobsState = makeobsIdle

SpecBlockedGoal == InitBlockedGoal /\ [][Next]_vars

(***************************************************************************)
(* Scenario along the bottom edge of the obstacle: start (25,55), goal     *)
(* (35,55), obstacle Rect((30,45),(10,10)); any sequence of calls.         *)
(***************************************************************************)
InitOnEdge ==
    /\ x = <<startOnEdge[1]>>
    /\ y = <<startOnEdge[2]>>
    /\ parent = <<0>>
    /\ cost = <<0>>
    /\ goalFlag = FALSE
    /\ goalstate = None
    /\ path = <<>>
    /\ obstacles = <<Obstacle>>
    /\ op = "init"
    /\ ret = FALSE
    /\ selfGoal = goalOnEdge
    /\ iteration = 0
    /\ drawn = <<>>
    /\ makeobsState = makeobsIdle

SpecOnEdge == InitOnEdge /\ [][Next]_vars

(***************************************************************************)
(* Scenario below the bottom edge: start (35,60), goal (35,55) on the      *)
(* edge, obstacle Rect((30,45),(10,10)); any sequence of calls.            *)
(***************************************************************************)
InitBelowEdge ==
    /\ x = <<startBelowEdge[1]>>
    /\ y = <<startBelowEdge[2]>>
    /\ parent = <<0>>
    /\ cost = <<0>>
    /\ goalFlag = FALSE
    /\ goalstate = None
    /\ path = <<>>
    /\ obstacles = <<Obstacle>>
    /\ op = "init"
    /\ ret = FALSE
    /\ selfGoal = goalOnEdge
    /\ iteration = 0
    /\ drawn = <<>>
    /\ makeobsState = makeobsIdle

SpecBelowEdge == InitBelowEdge /\ [][Next]_vars

(***************************************************************************)
(* Scenario B: the loop of main() on the 3 x 2 workspace.  The obstacle    *)
(* Rect((1,0),(1,1)) covers (1,0), the lattice point between start (0,0)   *)
(* and goal (2,0); the detour (0,0)-(0,1)-(1,1)-(2,1)-(2,0) is free.  The  *)
(* sampler is periodic: its first mapw * maph draws are the points of the  *)
(* workspace in any order, and it repeats that order for ever, so every    *)
(* point is drawn once in each round.                                      *)
(***************************************************************************)
InitB ==
    /\ x = <<startB[1]>>
    /\ y = <<startB[2]>>
    /\ parent = <<0>>
    /\ cost = <<0>>
    /\ goalFlag = FALSE
    /\ goalstate = None
    /\ path = <<>>
    /\ obstacles = <<ObstacleB>>
    /\ op = "init"
    /\ ret = FALSE
    /\ selfGoal = goalB
    /\ iteration = 0
    /\ drawn = <<>>
    /\ makeobsState = makeobsIdle

\* the values sample_envir() can return
sample_envir == {<<px, py>> : px \in 0..(mapw - 1), py \in 0..(maph - 1)}

\* the expand() iterations among the first `iteration` iterations of main()
expandsDone == iteration - ((iteration + 9) \div 10)

\* the loop body runs while path_to_goal() is false and the time budget of
\* main() is not used up (elapsed > 500 returns from main); the budget is
\* counted in rounds of draws
LoopRuns ==
    /\ ~path_to_goal(Graph, path).ok
    /\ expandsDone < MaxRounds * Cardinality(sample_envir)

IterationBias ==
    /\ LoopRuns
    /\ iteration % 10 = 0
    /\ Install(bias(Graph, obstacles, selfGoal))
    /\ iteration' = iteration + 1
    /\ op' = "bias"
    /\ ret' = FALSE
    /\ UNCHANGED <<path, obstacles, selfGoal, drawn, makeobsState>>

IterationExpand ==
    /\ LoopRuns
    /\ iteration % 10 # 0
    /\ \E sample \in sample_envir :
          /\ IF Len(drawn) < Cardinality(sample_envir)
             THEN /\ \A k \in 1..Len(drawn) : drawn[k] # sample
                  /\ drawn' = Append(drawn, sample)
             ELSE /\ sample = drawn[(expandsDone % Cardinality(sample_envir)) + 1]
                  /\ drawn' = drawn
          /\ Install(expand(Graph, obstacles, sample))
    /\ iteration' = iteration + 1
    /\ op' = "expand"
    /\ ret' = FALSE
    /\ UNCHANGED <<path, obstacles, selfGoal, makeobsState>>

NextB == IterationBias \/ IterationExpand \/ PathToGoal

\* weak fairness of the loop body.  Every iteration increments `iteration`,
\* so ENABLED <<IterationBias \/ IterationExpand>>_vars is LoopRuns.
LoopFair ==
    []<>(~LoopRuns) \/ []<><<IterationBias \/ IterationExpand>>_vars

\* the loop keeps iterating while it can, and path_to_goal() keeps being
\* asked
SpecB == InitB /\ [][NextB]_vars /\ LoopFair /\ WF_vars(PathToGoal)

(***************************************************************************)
(* makeobs() on the graph main() has just constructed.  One step is one    *)
(* pass of the inner loop body (one makeRandomRect() draw), or the test    *)
(* that follows the inner loop.                                            *)
(***************************************************************************)
InitMakeobs ==
    /\ x = <<start[1]>>
    /\ y = <<start[2]>>
    /\ parent = <<0>>
    /\ cost = <<0>>
    /\ goalFlag = FALSE
    /\ goalstate = None
    /\ path = <<>>
    /\ obstacles = <<>>
    /\ op = "init"
    /\ ret = FALSE
    /\ selfGoal = goal
    /\ iteration = 0
    /\ drawn = <<>>
    /\ makeobsState = makeobsIdle

graphVars ==
    <<x, y, parent, cost, goalFlag, goalstate, path, selfGoal, iteration,
      drawn, ret>>

\* "self.obstacles = obs.copy(); return obs" with the frame f
makeobsReturn(f) ==
    /\ makeobsState' = [f EXCEPT !.pc = "done"]
    /\ obstacles' = f.obs

\* the call, up to the top of the first inner loop body
makeobsCall ==
    /\ makeobsState.pc = "idle"
    /\ op' = "makeobs"
    /\ IF obsNumber > 0
       THEN /\ makeobsState' = [makeobsState EXCEPT !.pc = "attempt"]
            /\ UNCHANGED obstacles
       ELSE makeobsReturn(makeobsState)
    /\ UNCHANGED graphVars

\* one pass of the inner loop body that never tests for overlap
makeobsAttempt_noOverlapTest ==
    /\ makeobsState.pc = "attempt"
    /\ \E upper \in makeRandomRect :
          LET rectang == [left |-> upper[1], top |-> upper[2],
                          w |-> obsdim, h |-> obsdim]
          IN  makeobsState' = [makeobsState EXCEPT !.obs = Append(@, rectang),
                                                    !.pc = "after"]
    /\ UNCHANGED <<graphVars, obstacles, op>>

\* one pass of the inner loop body
makeobsAttempt ==
    /\ makeobsState.pc = "attempt"
    /\ \E upper \in makeRandomRect :
          LET rectang == [left |-> upper[1], top |-> upper[2],
                          w |-> obsdim, h |-> obsdim]
              f == makeobsState
          IN  IF \E k \in 1..Len(f.obs) : colliderect(rectang, f.obs[k])
              THEN IF f.j + 1 < max_iter
                   THEN makeobsState' = [f EXCEPT !.j = f.j + 1]
                   ELSE makeobsState' = [f EXCEPT !.pc = "after"]
              ELSE makeobsState' = [f EXCEPT !.obs = Append(@, rectang),
                                             !.pc = "after"]
    /\ UNCHANGED <<graphVars, obstacles, op>>

\* the test after the inner loop, and the next pass of the outer loop
makeobsAfterLoop ==
    /\ makeobsState.pc = "after"
    /\ LET f == makeobsState
       IN  IF f.j = max_iter - 1
           THEN makeobsReturn([f EXCEPT !.printed = TRUE])
           ELSE IF f.i + 1 < obsNumber
                THEN /\ makeobsState' = [f EXCEPT !.i = f.i + 1, !.j = 0,
                                                  !.pc = "attempt"]
                     /\ UNCHANGED obstacles
                ELSE makeobsReturn(f)
    /\ UNCHANGED <<graphVars, op>>

NextMakeobs == makeobsCall \/ makeobsAttempt \/ makeobsAfterLoop

SpecMakeobs == InitMakeobs /\ [][NextMakeobs]_vars /\ WF_vars(NextMakeobs)

(***************************************************************************)
(* Properties.  Every state of Spec is a state between two calls, so a     *)
(* state predicate speaks of the graph after a completed call.             *)
(***************************************************************************)
Children == 1..(Len(x) - 1)

parentOf(i) == parent[i + 1]

\* some node was re-parented by rewire(): connect() only ever gives a node a
\* parent with a smaller index
Rewired(i) == i \in Children /\ parentOf(i) > i

\* C1: after every completed expand() or bias(), every node i > 0 has
\* cost[i] = cost[parent[i]] + distance(parent[i], i)
C1_CostMatchesParent ==
    \A i \in Children :
        cost[i + 1] = Plus(cost[parentOf(i) + 1], distance(Graph, parentOf(i), i))

\* C2: after every completed expand() or bias(), every node i > 0 has a
\* parent index inside the tree and the segment from its parent to it passes
\* crossObstacles
C2_EdgesValid ==
    /\ Len(parent) = Len(x)
    /\ \A i \in Children :
          /\ 0 <= parentOf(i)
          /\ parentOf(i) < number_of_nodes(Graph)
          /\ ~crossObstacles(obstacles, x[parentOf(i) + 1], x[i + 1],
                             y[parentOf(i) + 1], y[i + 1])

\* a tree with a goal node beyond the obstacle, one edge made by rewire()
C2_Witness ==
    /\ op \in {"expand", "bias"}
    /\ \E i \in Children : Rewired(i)
    /\ \E j \in Children : <<x[j + 1], y[j + 1]>> = goal

RECURSIVE ReachesRoot(_, _)
ReachesRoot(i, hops) ==
    IF i = 0 THEN TRUE
    ELSE IF hops = 0 THEN FALSE
         ELSE ReachesRoot(parentOf(i), hops - 1)

\* C3: the parent relation is a tree rooted at 0: from every node the parent
\* links reach node 0 within number_of_nodes() hops
C3_TreeRootedAtZero ==
    \A i \in 0..(Len(x) - 1) : ReachesRoot(i, number_of_nodes(Graph))

\* rewire() re-parented a node that has a child of its own
C3_Witness ==
    \E i \in Children : Rewired(i) /\ \E j \in Children : parentOf(j) = i

\* C4: node 0 always has the start position, cost 0 and parent 0
C4_RootFixed ==
    /\ x[1] = start[1]
    /\ y[1] = start[2]
    /\ cost[1] = 0
    /\ parent[1] = 0

\* rewire() changed a parent from a new node that has the root in its radius
C4_Witness ==
    \E i \in Children :
        /\ Rewired(i)
        /\ distance(Graph, 0, parentOf(i)) < Fixed(rewireRadius)

\* C5: after every completed expand() or bias(), a set goalFlag means that
\* goalstate is the index of a node of the tree that lies on the goal and has
\* a parent
C5_GoalFlagMeansGoalNode ==
    goalFlag =>
        /\ goalstate # None
        /\ goalstate < number_of_nodes(Graph)
        /\ goalstate < Len(parent)
        /\ <<x[goalstate + 1], y[goalstate + 1]>> = goal

\* C6: when path_to_goal() returns true, getPathCord() starts at the goal,
\* ends at the start, and every consecutive pair is a (child, parent) edge
\* that passes crossObstacles
C6_PathGoalToStart ==
    (op = "path_to_goal" /\ ret) =>
        LET coords == getPathCord(Graph, path)
        IN  /\ coords[1] = goal
            /\ coords[Len(coords)] = start
            /\ \A k \in 1..(Len(path) - 1) :
                  /\ parentOf(path[k]) = path[k + 1]
                  /\ ~crossObstacles(obstacles, coords[k + 1][1], coords[k][1],
                                     coords[k + 1][2], coords[k][2])

\* C7: goalFlag is false initially and, once true, stays true over every
\* expand(), bias() and path_to_goal()
C7_GoalFlagStays == (~goalFlag) /\ [][goalFlag => goalFlag']_vars

\* the flag is set and a node was added after the index it recorded
C7_Witness ==
    /\ goalFlag
    /\ goalstate + 1 < number_of_nodes(Graph)
    /\ op = "path_to_goal"

\* C8: once goalstate is recorded it never changes
C8_GoalStateFixed == [][goalstate # None => goalstate' = goalstate]_vars

\* C9: once path_to_goal() returns true it returns true after every later
\* expand() or bias()
C9_PathStaysAvailable == [][pathGuard(Graph) => pathGuard(Graph)']_vars

RECURSIVE pathLength(_, _)
pathLength(coords, k) ==
    IF k >= Len(coords) THEN 0
    ELSE LET dx == coords[k][1] - coords[k + 1][1]
             dy == coords[k][2] - coords[k + 1][2]
         IN  FixedSqrt(dx * dx + dy * dy)
                 + pathLength(coords, k + 1)

\* C10: when path_to_goal() returns true, the cost of the goal node equals
\* the summed length of the extracted path
C10_GoalCostIsPathLength ==
    (op = "path_to_goal" /\ ret) =>
        cost[goalstate + 1] = pathLength(getPathCord(Graph, path), 1)

\* C11: path_to_goal() returns true exactly when goalFlag is set, goalstate
\* is the index of a node and the parent links from goalstate reach node 0
C11_PathToGoalIff ==
    (op = "path_to_goal") =>
        (ret <=> /\ goalFlag
                 /\ goalstate # None
                 /\ goalstate < number_of_nodes(Graph)
                 /\ ReachesRoot(goalstate, number_of_nodes(Graph)))

\* path_to_goal() returned false although the flag is set: goalstate was
\* left on the index of a candidate that connect() rejected
C11_Witness ==
    /\ op = "path_to_goal"
    /\ ~ret
    /\ goalFlag
    /\ number_of_nodes(Graph) >= 2

\* C12: getPathCord() called before path_to_goal() has ever returned true
\* (self.path is still the empty list) ends in an InvalidState error
C12_ExtractBeforeGoalFails ==
    (path = <<>>) => getPathCordOutcome(Graph, path).status = "InvalidState"

\* C13: over every call the node count does not decrease and grows by at
\* most one, and every node keeps its index and position
C13_NodesStay ==
    [][/\ Len(x') >= Len(x)
       /\ Len(x') <= Len(x) + 1
       /\ Len(y') = Len(x')
       /\ \A i \in 1..Len(x) : x'[i] = x[i] /\ y'[i] = y[i]]_vars

\* a candidate was steered or rolled back (cost has entries beyond the
\* nodes) in a tree that has nodes besides the root
C13_Witness ==
    /\ op \in {"expand", "bias"}
    /\ Len(cost) > Len(x)
    /\ number_of_nodes(Graph) >= 3

\* C14: an expand() or bias() call whose sample or connecting segment is
\* rejected leaves the node count and every node's position, parent and cost
\* as they were
C14_RejectedCallKeepsTree ==
    CanGrow =>
        \A c \in Calls :
            rejected(Graph, obstacles, c) =>
                LET r == call(Graph, obstacles, c)
                IN  /\ r.x = x
                    /\ r.y = y
                    /\ r.parent = parent
                    /\ \A i \in 1..Len(x) : r.cost[i] = cost[i]

\* a goal-snapped candidate was rolled back in a tree of several nodes, and
\* a further call would be rejected as well
C14_Witness ==
    /\ op \in {"expand", "bias"}
    /\ goalFlag
    /\ goalstate >= number_of_nodes(Graph)
    /\ number_of_nodes(Graph) >= 3
    /\ CanGrow
    /\ \E c \in Calls : rejected(Graph, obstacles, c)

\* C15: rewire() never increases the cost of a node, and a node whose cost
\* or parent it changes ends with a strictly lower cost (the nodes that
\* exist before a call are touched by its rewire() only)
C15_RewireLowersCost ==
    [][\A i \in 1..Len(x) :
          /\ cost'[i] <= cost[i]
          /\ (cost'[i] # cost[i] \/ parent'[i] # parent[i]) => cost'[i] < cost[i]]_vars

\* the newest node took over a node that was in the tree before it
C15_Witness ==
    /\ op \in {"expand", "bias"}
    /\ \E i \in Children : Rewired(i) /\ parentOf(i) = number_of_nodes(Graph) - 1

\* C17: every edge has length <= dmax, except an edge whose child lies on
\* the goal
C17_EdgesWithinMaxStep ==
    \A i \in Children :
        (<<x[i + 1], y[i + 1]>> # selfGoal) =>
            distance(Graph, parentOf(i), i) <= Fixed(dmax)

\* C16: when rewire(n) finds an existing node i within the radius with
\* cost[n] + distance(n, i) < cost[i] and a free segment, then after the
\* call parent[i] = n and cost[i] = cost[n] + distance(n, i)
C16_RewireTakesImprovement ==
    [][(Len(x') = Len(x) + 1) =>
          LET n == Len(x)
          IN  \A i \in 0..(n - 1) :
                  LET dist == distance(Graph', i, n)
                      candidate == Plus(cost'[n + 1], dist)
                  IN  (/\ dist < Fixed(rewireRadius)
                       /\ candidate < cost[i + 1]
                       /\ ~crossObstacles(obstacles, x'[n + 1], x[i + 1],
                                          y'[n + 1], y[i + 1]))
                      => (parent'[i + 1] = n /\ cost'[i + 1] = candidate)]_vars

\* the newest node took over an older node at exactly the candidate cost
C16_Witness ==
    /\ op = "expand"
    /\ \E i \in Children :
          /\ parentOf(i) = number_of_nodes(Graph) - 1
          /\ i < parentOf(i)
          /\ cost[i + 1] = Plus(cost[parentOf(i) + 1],
                                distance(Graph, i, parentOf(i)))

\* C18: in scenario A, after at most 50 bias(goal) iterations
\* path_to_goal() returns true
C18_BiasReachesGoal ==
    (iteration >= 50) => path_to_goal(Graph, path).ok

\* the 50th iteration is done and path_to_goal() has returned true on a
\* path that ends on the goal (600,50)
C18_Witness ==
    /\ iteration = 50
    /\ op = "path_to_goal"
    /\ ret
    /\ getPathCord(Graph, path)[1] = goalA

\* the fields the two results are compared on: node positions, parents,
\* the costs of the nodes, goalFlag and goalstate
sameTree(a, b) ==
    /\ a.x = b.x
    /\ a.y = b.y
    /\ a.parent = b.parent
    /\ \A i \in 1..Len(a.x) : a.cost[i] = b.cost[i]
    /\ a.goalFlag = b.goalFlag
    /\ a.goalstate = b.goalstate

\* C20: from the same tree and obstacle set, bias(goal) and expand() with
\* the sample equal to the goal leave the same node positions, parents,
\* costs, goalFlag and goalstate, also when the goal is inside an obstacle
C20_BiasEqualsExpandAtGoal ==
    sameTree(bias(Graph, obstacles, selfGoal),
             expand(Graph, obstacles, selfGoal))

\* no segment of the extracted path crosses an obstacle
pathClear ==
    LET coords == getPathCord(Graph, path)
    IN  \A k \in 1..(Len(path) - 1) :
            ~crossObstacles(obstacles, coords[k][1], coords[k + 1][1],
                            coords[k][2], coords[k + 1][2])

\* C19: in scenario B, a run in which every point of the workspace keeps
\* being drawn eventually has path_to_goal() return true, with a path none
\* of whose segments crosses the obstacle
C19_FairRunFindsPath ==
    <>(op = "path_to_goal" /\ ret /\ pathClear)

\* the squared Euclidean distance between nodes n1 and n2
squaredDistance(g, n1, n2) ==
    (g.x[n1 + 1] - g.x[n2 + 1]) * (g.x[n1 + 1] - g.x[n2 + 1])
        + (g.y[n1 + 1] - g.y[n2 + 1]) * (g.y[n1 + 1] - g.y[n2 + 1])

\* the points a growth call can add as node n before it asks nearest(n)
Candidates == SamplePoints \cup {selfGoal}

\* C21: nearest(n) returns an index j in 0..n-1 of least Euclidean distance
\* to node n, and the lowest index among those at the least distance (for
\* every node n a call can add to the state)
C21_NearestIsClosestLowest ==
    \A p \in Candidates :
        CanGrow =>
        LET n == number_of_nodes(Graph)
            g == add_node(Graph, n, p[1], p[2])
            j == nearest(g, n)
        IN  /\ j \in 0..(n - 1)
            /\ \A i \in 0..(n - 1) :
                   /\ squaredDistance(g, j, n) <= squaredDistance(g, i, n)
                   /\ (squaredDistance(g, i, n) = squaredDistance(g, j, n))
                          => j <= i

\* the last expand() connected its node to node j > 0 although a later node
\* is exactly as near
C21_Witness ==
    /\ op = "expand"
    /\ LET m == number_of_nodes(Graph) - 1
       IN  /\ m \in Children
           /\ parentOf(m) > 0
           /\ nearest(Graph, m) = parentOf(m)
           /\ \E i \in (parentOf(m) + 1)..(m - 1) :
                  squaredDistance(Graph, i, m) = squaredDistance(Graph, parentOf(m), m)

\* some of the 201 points p2 + (k/200) * (p1 - p2), k = 0..200, of the segment
\* lies inside some obstacle
samplePointInside(obs, x1, x2, y1, y2) ==
    \E r \in 1..Len(obs) : \E k \in 0..segmentSamples :
        collidepoint(obs[r],
                     x1 * k + x2 * (segmentSamples - k),
                     y1 * k + y2 * (segmentSamples - k),
                     segmentSamples)

\* the positions of the nodes
Positions == {<<x[i], y[i]>> : i \in 1..Len(x)}

\* C22: crossObstacles(p1, p2) reports a collision exactly when one of the
\* 201 equally spaced points of the segment lies inside some obstacle
C22_CrossObstaclesIffSampleInside ==
    \A p1 \in Positions : \A p2 \in Positions \cup Candidates :
        crossObstacles(obstacles, p1[1], p2[1], p1[2], p2[2])
            <=> samplePointInside(obstacles, p1[1], p2[1], p1[2], p2[2])

\* the point test: isFree() on the point p added as the last node
pointFree(p) ==
    isFree(add_node(Graph, number_of_nodes(Graph), p[1], p[2]), obstacles).ok

\* C23: a segment that crossObstacles() accepts (from a node to a point a
\* call can add) has both end points accepted by the point test, and every
\* node that has a parent is accepted by the point test, as is its parent
C23_SegmentTestImpliesPointTest ==
    /\ \A p1 \in Positions : \A p2 \in Candidates :
           (CanGrow /\ ~crossObstacles(obstacles, p1[1], p2[1], p1[2], p2[2]))
               => (pointFree(p1) /\ pointFree(p2))
    /\ \A i \in Children :
           /\ pointFree(<<x[i + 1], y[i + 1]>>)
           /\ pointFree(<<x[parentOf(i) + 1], y[parentOf(i) + 1]>>)

\* bias(), which has no point test, has connected the goal node on the
\* obstacle's bottom edge
C23_Witness ==
    /\ op = "bias"
    /\ LET m == number_of_nodes(Graph) - 1
       IN  /\ m \in Children
           /\ <<x[m + 1], y[m + 1]>> = goalOnEdge
           /\ ~crossObstacles(obstacles, x[parentOf(m) + 1], x[m + 1],
                              y[parentOf(m) + 1], y[m + 1])

\* node i meets the three conditions under which rewire(n) may re-parent it
rewireEligible(g, obs, n, i) ==
    /\ i # n
    /\ i < Len(g.x)
    /\ n < Len(g.x)
    /\ distance(g, i, n) < Fixed(rewireRadius)
    /\ Plus(g.cost[n + 1], distance(g, i, n)) < g.cost[i + 1]
    /\ ~crossObstacles(obs, g.x[n + 1], g.x[i + 1], g.y[n + 1], g.y[i + 1])

\* C24: rewire(n) changes parent and cost only of nodes i # n within the
\* radius that have cost[n] + distance(n, i) < cost[i] and a free segment to
\* n; positions, list lengths, goalFlag and goalstate stay; rewire() of an
\* index that is not in the tree changes nothing (for every call that can
\* follow the state)
C24_RewireFrame ==
    \A c \in Calls :
        (CanGrow /\ rewireCalled(Graph, obstacles, c)) =>
            LET n == number_of_nodes(Graph)
                pre == rewireInput(Graph, obstacles, c)
                post == rewire(pre, obstacles, n)
            IN  /\ post.x = pre.x
                /\ post.y = pre.y
                /\ Len(post.parent) = Len(pre.parent)
                /\ Len(post.cost) = Len(pre.cost)
                /\ post.goalFlag = pre.goalFlag
                /\ post.goalstate = pre.goalstate
                /\ \A k \in 1..Len(pre.parent) :
                       (post.parent[k] # pre.parent[k])
                           => rewireEligible(pre, obstacles, n, k - 1)
                /\ \A k \in 1..Len(pre.cost) :
                       (post.cost[k] # pre.cost[k])
                           => rewireEligible(pre, obstacles, n, k - 1)
                /\ (n >= Len(pre.x)) => (post = pre)

\* the rewire() of the last call re-parented one node and left alone
\* another node inside its radius
C24_Witness ==
    /\ op \in {"expand", "bias"}
    /\ LET n == number_of_nodes(Graph) - 1
       IN  /\ \E i \in Children : i < n /\ parentOf(i) = n
           /\ \E k \in Children :
                  /\ k < n
                  /\ parentOf(k) # n
                  /\ distance(Graph, k, n) < Fixed(rewireRadius)

\* C25: the rectangles makeobs() holds and returns are pairwise
\* non-overlapping and at most obsNumber, every obstacle gets at most
\* max_iter placement attempts, and the call returns
C25_MakeobsNonOverlappingBounded ==
    /\ [](LET f == makeobsState
          IN  /\ \A k1 \in 1..Len(f.obs) : \A k2 \in 1..Len(f.obs) :
                     (k1 # k2) => ~colliderect(f.obs[k1], f.obs[k2])
              /\ Len(f.obs) <= obsNumber
              /\ f.j \in 0..(max_iter - 1)
              /\ (f.pc = "done") => (obstacles = f.obs))
    /\ <>(makeobsState.pc = "done")

\* makeobs() has returned three obstacles, the last one placed after a
\* rejected attempt
C25_Witness ==
    /\ makeobsState.pc = "done"
    /\ Len(obstacles) = obsNumber
    /\ makeobsState.j > 0

\* C26: makeobs() prints the warning exactly when the obstacle it stopped
\* at was not placed within its max_iter attempts, and without the warning
\* it returns all obsNumber obstacles
C26_WarningIffNotPlaced ==
    (makeobsState.pc = "done" /\ obsNumber > 0) =>
        /\ makeobsState.printed <=> (Len(makeobsState.obs) = makeobsState.i)
        /\ ~makeobsState.printed => (Len(obstacles) = obsNumber)

\* a node i > 0 lies on the goal
goalNodeInTree == \E i \in Children : <<x[i + 1], y[i + 1]>> = selfGoal

\* C27: after a completed expand() or bias(), a tree that holds a node
\* i > 0 on the goal has goalFlag true and path_to_goal() returns true
C27_GoalNodeSetsFlag ==
    (op \in {"expand", "bias"} /\ goalNodeInTree) =>
        (goalFlag /\ path_to_goal(Graph, path).ok)

\* the summed edge lengths of the parent chain from node i to the root
RECURSIVE chainLength(_, _)
chainLength(i, hops) ==
    IF i = 0 \/ hops = 0 THEN 0
    ELSE Plus(distance(Graph, parentOf(i), i),
              chainLength(parentOf(i), hops - 1))

\* C28: after a completed expand() or bias() every node i > 0 has a finite
\* cost that is at least cost[parent[i]] + distance(parent[i], i), hence at
\* least the summed edge lengths of its parent chain to the root
C28_CostBoundsParentChain ==
    (op \in {"expand", "bias"}) =>
        \A i \in Children :
            /\ cost[i + 1] < Inf
            /\ cost[i + 1] >= Plus(cost[parentOf(i) + 1],
                                   distance(Graph, parentOf(i), i))
            /\ cost[i + 1] >= chainLength(i, number_of_nodes(Graph))

\* rewire() moved a node with a child of its own: the child's recorded cost
\* is strictly above its parent's cost plus the edge, and above its chain
C28_Witness ==
    /\ op \in {"expand", "bias"}
    /\ \E i \in Children :
          /\ Rewired(parentOf(i))
          /\ cost[i + 1] > Plus(cost[parentOf(i) + 1],
                                distance(Graph, parentOf(i), i))
          /\ cost[i + 1] > chainLength(i, number_of_nodes(Graph))

\* C29: after a completed call, rejected ones included, x, y, parent and
\* cost all have number_of_nodes() entries
C29_ParallelListsSameLength ==
    (op \in {"expand", "bias"}) =>
        /\ Len(x) = number_of_nodes(Graph)
        /\ Len(y) = number_of_nodes(Graph)
        /\ Len(parent) = number_of_nodes(Graph)
        /\ Len(cost) = number_of_nodes(Graph)

====
